---- MODULE Spec2Model ----
(***************************************************************************)
(* Promlite: Counter, Gauge and Histogram metrics keyed by label lists.    *)
(* Strings are sequences of one-character strings.  A Map is a sequence of *)
(* entries [k, v] in insertion order (the iteration order of a JS Map).    *)
(* JS numbers are modelled over the integers, with NaN, Infinity and       *)
(* -Infinity as separate values.                                           *)
(***************************************************************************)
EXTENDS Integers, Sequences, FiniteSets, TLC

\* ------------------------------------------------------------------ bounds
\* Successful mutations recorded per metric since construction / last reset.
MaxOps == 3
\* Label values in a label list handed to the key encoding.
MaxKeyLabels == 2
\* Successful mutations recorded over the three metrics used side by side.
MaxMetricOps == 3
\* Calls each concurrent request handler makes.
MaxHandlerCalls == 2

\* ------------------------------------------------------------- JS values
Undef == [t |-> "undefined", n |-> 0, a |-> <<>>]
NaN == [t |-> "NaN", n |-> 0, a |-> <<>>]
PosInf == [t |-> "Infinity", n |-> 1, a |-> <<>>]
NegInf == [t |-> "Infinity", n |-> -1, a |-> <<>>]
\* a JS string passed where a number or an array is expected ("string" as unknown as number)
StrArg == [t |-> "string", n |-> 0, a |-> <<"s", "t", "r", "i", "n", "g">>]
Num(n) == [t |-> "num", n |-> n, a |-> <<>>]
Arr(l) == [t |-> "array", n |-> 0, a |-> l]

\* typeof x === 'number'
TypeofNumber(x) == x.t \in {"num", "NaN", "Infinity"}
\* x === undefined
IsUndefined(x) == x.t = "undefined"
\* Array.isArray(x)
IsArray(x) == x.t = "array"
\* x ?? d
Coalesce(x, d) == IF IsUndefined(x) THEN d ELSE x
\* the finiteness check reduced to isNaN(v)
NotFiniteNumber_nanOnly(v) == v.t = "NaN"
\* typeof v !== 'number' || isNaN(v) || !Number.isFinite(v)
NotFiniteNumber(v) == ~TypeofNumber(v) \/ v.t = "NaN" \/ v.t \in {"NaN", "Infinity"}
\* the `amount < 0` check left out
LessThanZero_never(v) == FALSE
\* v < 0 for a JS number (NaN compares false, a non-number is not reached)
LessThanZero(v) ==
    \/ v.t = "num" /\ v.n < 0
    \/ v.t = "Infinity" /\ v.n < 0
\* the label count check left out
LabelCountDiffers_never(labels, declared) == FALSE
\* labels.length !== this.labels.length
LabelCountDiffers(labels, declared) == Len(labels) # Len(declared)

\* --------------------------------------------------------------- strings
Digits == <<"0", "1", "2", "3", "4", "5", "6", "7", "8", "9">>

RECURSIVE NatToStr(_)
NatToStr(n) ==
    IF n < 10 THEN <<Digits[n + 1]>>
    ELSE NatToStr(n \div 10) \o <<Digits[(n % 10) + 1]>>

\* `${value}` of an integer-valued number
NumToStr(n) == IF n < 0 THEN <<"-">> \o NatToStr(0 - n) ELSE NatToStr(n)

RECURSIVE Flatten(_)
Flatten(ss) == IF ss = <<>> THEN <<>> ELSE Head(ss) \o Flatten(Tail(ss))

\* a JSON string body written without escaping
Quote_noEscape(s) == s

RECURSIVE Quote(_)
\* JSON string body: '"' and '\' are escaped with a backslash
Quote(s) ==
    IF s = <<>> THEN <<>>
    ELSE (IF Head(s) \in {"\"", "\\"} THEN <<"\\", Head(s)>> ELSE <<Head(s)>>)
         \o Quote(Tail(s))

RECURSIVE StringifyItems(_)
StringifyItems(l) ==
    IF l = <<>> THEN <<>>
    ELSE <<"\"">> \o Quote(Head(l)) \o <<"\"">>
         \o (IF Tail(l) = <<>> THEN <<>> ELSE <<",">>)
         \o StringifyItems(Tail(l))

\* JSON.stringify(labels) of an array of strings
Stringify(l) == <<"[">> \o StringifyItems(l) \o <<"]">>
\* JSON.stringify(x) of an array of strings or of a bare string
StringifyValue(x) ==
    IF x.t = "array" THEN Stringify(x.a) ELSE <<"\"">> \o Quote(x.a) \o <<"\"">>

RECURSIVE ParseFrom(_, _, _, _, _)
ParseFrom(s, i, cur, acc, inStr) ==
    IF i > Len(s) THEN acc
    ELSE IF ~inStr
         THEN IF s[i] = "\"" THEN ParseFrom(s, i + 1, <<>>, acc, TRUE)
              ELSE ParseFrom(s, i + 1, cur, acc, FALSE)
         ELSE IF s[i] = "\\" THEN ParseFrom(s, i + 2, Append(cur, s[i + 1]), acc, TRUE)
              ELSE IF s[i] = "\"" THEN ParseFrom(s, i + 1, <<>>, Append(acc, cur), FALSE)
              ELSE ParseFrom(s, i + 1, Append(cur, s[i]), acc, TRUE)

\* JSON.parse(key) of a key produced by JSON.stringify of an array of strings
Parse(key) == ParseFrom(key, 1, <<>>, <<>>, FALSE)

\* -------------------------------------------------------------------- Map
RECURSIVE MapIndex(_, _, _)
MapIndex(m, k, i) ==
    IF i > Len(m) THEN 0 ELSE IF m[i].k = k THEN i ELSE MapIndex(m, k, i + 1)

\* Map.prototype.has
MapHas(m, k) == MapIndex(m, k, 1) # 0
\* Map.prototype.get(k) || 0
MapGetOr0(m, k) == IF MapHas(m, k) THEN m[MapIndex(m, k, 1)].v ELSE 0
\* a set that drops every other entry of the map
MapSet_clobber(m, k, v) == <<[k |-> k, v |-> v]>>
\* a set that moves an existing key to the end of the map
MapSet_moveToEnd(m, k, v) == Append(SelectSeq(m, LAMBDA e : e.k # k), [k |-> k, v |-> v])
\* a set that makes no entry for the value 0
MapSet_skipZero(m, k, v) ==
    IF MapHas(m, k) THEN [m EXCEPT ![MapIndex(m, k, 1)] = [k |-> k, v |-> v]]
    ELSE IF v = 0 THEN m
    ELSE Append(m, [k |-> k, v |-> v])
\* Map.prototype.set: an existing key keeps its position, a new key goes last
MapSet(m, k, v) ==
    IF MapHas(m, k)
    THEN [m EXCEPT ![MapIndex(m, k, 1)] = [k |-> k, v |-> v]]
    ELSE Append(m, [k |-> k, v |-> v])
MapKeys(m) == {m[i].k : i \in 1..Len(m)}
\* a delete that fills the hole with the last entry
MapDelete_swap(m, k) ==
    LET i == MapIndex(m, k, 1)
    IN  IF i = 0 THEN m
        ELSE IF i = Len(m) THEN SubSeq(m, 1, Len(m) - 1)
        ELSE [j \in 1..(Len(m) - 1) |-> IF j = i THEN m[Len(m)] ELSE m[j]]
\* Map.prototype.delete: the other entries keep their order
MapDelete(m, k) ==
    LET i == MapIndex(m, k, 1)
    IN  IF i = 0 THEN m ELSE SubSeq(m, 1, i - 1) \o SubSeq(m, i + 1, Len(m))

\* ------------------------------------------------------------ call inputs
\* label values the callers pass (one plain, one that JSON.stringify escapes)
Values == {<<"a">>, <<"\"">>}
LabelLists == {<<>>} \cup {<<v>> : v \in Values} \cup {<<<<"a">>, v>> : v \in Values}
\* numeric arguments: finite ones, and the ones the finiteness check rejects
FiniteAmounts == {Num(n) : n \in {-1, 0, 1, 2}}
Amounts == FiniteAmounts \cup {NaN, PosInf, NegInf, StrArg}
\* the overloaded call shapes f(), f(number), f(labels), f(labels, number) as <<arg1, arg2>>
Calls ==
    {<<Undef, Undef>>} \cup {<<a, Undef>> : a \in Amounts}
    \cup {<<Arr(l), a>> : l \in LabelLists, a \in {Undef} \cup Amounts}

\* the Gauge's callers: label lists of length 0 and 1, fewer numbers
GaugeLists == {l \in LabelLists : Len(l) <= 1}
GaugeAmounts == {Num(-1), Num(2), NaN, PosInf, StrArg}
GaugeCalls ==
    {<<Undef, Undef>>} \cup {<<a, Undef>> : a \in GaugeAmounts}
    \cup {<<Arr(l), a>> : l \in GaugeLists, a \in {Undef} \cup GaugeAmounts}
GaugeLabelNameSets == {<<>>, <<<<"m">>>>}

\* the Histogram's callers: label lists of length 0 and 1, observed values
HistLists == {l \in LabelLists : Len(l) <= 1}
HistValues == {Num(1), Num(2), Num(3), NaN, PosInf, StrArg}
HistCalls ==
    {<<Undef, Undef>>} \cup {<<a, Undef>> : a \in HistValues}
    \cup {<<Arr(l), a>> : l \in HistLists, a \in {Undef} \cup HistValues}
HistLabelNameSets == {<<>>, <<<<"m">>>>}
\* the bucket bounds given to the constructor: one bound, unsorted, with a duplicate
BucketLists == {<<2>>, <<2, 1>>, <<1, 1>>}

\* declared label names: `labels` of the constructor
LabelNameSets == {<<>>, <<<<"m">>>>, <<<<"m">>, <<"r">>>>}

\* ----------------------------------------------------------------- errors
NoError == [cls |-> "", msg |-> "", expected |-> -1, actual |-> -1]
LabelCountMismatch(e, a) ==
    [cls |-> "Error", msg |-> "Label count mismatch, expected ${e} but got ${a}",
     expected |-> e, actual |-> a]
InvalidArgumentType == [cls |-> "TypeError", msg |-> "Invalid argument type", expected |-> -1, actual |-> -1]
AmountNotFinite == [cls |-> "TypeError", msg |-> "Amount is not a valid finite number", expected |-> -1, actual |-> -1]
ValueNotFinite == [cls |-> "TypeError", msg |-> "Value is not a valid finite number", expected |-> -1, actual |-> -1]
LabelsMustBeArray == [cls |-> "TypeError", msg |-> "Labels must be an array of strings", expected |-> -1, actual |-> -1]
ValueMustBeNumber == [cls |-> "TypeError", msg |-> "Value must be a number", expected |-> -1, actual |-> -1]
\* Gauge.get's error names no counts
LabelCountMismatchBare == [cls |-> "Error", msg |-> "Label count mismatch", expected |-> -1, actual |-> -1]
CannotDecrease == [cls |-> "Error", msg |-> "Counter cannot be decreased", expected |-> -1, actual |-> -1]
AlreadyRegistered == [cls |-> "Error", msg |-> "Metric with name '${name}' is already registered", expected |-> -1, actual |-> -1]

\* ------------------------------------------------------------------ state
VARIABLES
    cLabels,    \* Counter.labels: the declared label names
    cValues,    \* Counter.values: Map<string, number>
    cCalls,     \* successful Counter.inc calls since construction / the last reset
    gLabels,    \* Gauge.labels
    gValues,    \* Gauge.values: Map<string, number>
    gFold,      \* per label list, the fold of the successful set/inc/dec calls on it
    gOps,       \* number of successful Gauge mutations since construction / the last reset
    hArg,       \* the bucket array the caller handed to the Histogram constructor: as given, and as the caller holds it afterwards
    hLabels,    \* Histogram.labels
    hBuckets,   \* Histogram.buckets: the constructor's bounds, sorted
    hCounts,    \* Histogram.counts: Map<string, Map<number, number>>
    hTotalSum,  \* Histogram.totalSum: Map<string, number>
    hTotalCount,\* Histogram.totalCount: Map<string, number>
    hCalls,     \* successful Histogram.observe calls since construction / the last reset
    ret,        \* the last call: its name, the error thrown, the value returned
    rMetrics,   \* Registry._metrics: Map<string, Metric>, a metric being one of the three instances
    rOrder,     \* the registered names, oldest (latest) registration first
    enc,        \* a label list, the key it encodes to and the list the key decodes to
    hand        \* per request handler, the calls it has completed and what they passed

counterVars == <<cLabels, cValues, cCalls>>
gaugeVars == <<gLabels, gValues, gFold, gOps>>
histVars == <<hArg, hLabels, hBuckets, hCounts, hTotalSum, hTotalCount, hCalls>>
regVars == <<rMetrics, rOrder>>
encVars == <<enc>>
handVars == <<hand>>
vars == <<cLabels, cValues, cCalls, gLabels, gValues, gFold, gOps,
          hArg, hLabels, hBuckets, hCounts, hTotalSum, hTotalCount, hCalls, ret,
          rMetrics, rOrder, enc, hand>>

cName == <<"c">>
cHelp == <<"h">>
\* the gauge carries the metric name of the counter
gName == <<"c">>
gHelp == <<"h">>
hName == <<"d">>
hHelp == <<"h">>

\* the last call: num, sum and out hold a returned number, a second number and
\* a returned text; name holds the name a Registry call was given, val the
\* boolean or the metric it returned and names the list of names it returned
Ret(op, err, num, out) ==
    [op |-> op, err |-> err, num |-> num, sum |-> 0, out |-> out,
     name |-> <<>>, val |-> "", names |-> <<>>]

\* ---------------------------------------------------------------- Counter
\* Counter.inc with `this.values.set(key, amount)`: overwrite instead of add
Counter_inc_overwrite(declared, values, arg1, arg2) ==
    LET labels == IF IsArray(arg1) THEN arg1.a ELSE <<>>
        amount == IF IsUndefined(arg1) THEN Num(1)
                  ELSE IF TypeofNumber(arg1) THEN arg1
                  ELSE Coalesce(arg2, Num(1))
        key == Stringify(labels)
    IN  IF ~IsUndefined(arg1) /\ ~TypeofNumber(arg1) /\ ~IsArray(arg1)
        THEN [values |-> values, err |-> InvalidArgumentType]
        ELSE IF LabelCountDiffers(labels, declared)
        THEN [values |-> values, err |-> LabelCountMismatch(Len(declared), Len(labels))]
        ELSE IF NotFiniteNumber(amount)
        THEN [values |-> values, err |-> AmountNotFinite]
        ELSE IF LessThanZero(amount)
        THEN [values |-> values, err |-> CannotDecrease]
        ELSE [values |-> MapSet(values, key, amount.n), err |-> NoError]

\* Counter.inc(arg1?, arg2?): the values map after the call and the error thrown
Counter_inc(declared, values, arg1, arg2) ==
    LET labels == IF IsArray(arg1) THEN arg1.a ELSE <<>>
        amount == IF IsUndefined(arg1) THEN Num(1)
                  ELSE IF TypeofNumber(arg1) THEN arg1
                  ELSE Coalesce(arg2, Num(1))
        key == Stringify(labels)
    IN  IF ~IsUndefined(arg1) /\ ~TypeofNumber(arg1) /\ ~IsArray(arg1)
        THEN [values |-> values, err |-> InvalidArgumentType]
        ELSE IF LabelCountDiffers(labels, declared)
        THEN [values |-> values, err |-> LabelCountMismatch(Len(declared), Len(labels))]
        ELSE IF NotFiniteNumber(amount)
        THEN [values |-> values, err |-> AmountNotFinite]
        ELSE IF LessThanZero(amount)
        THEN [values |-> values, err |-> CannotDecrease]
        ELSE [values |-> MapSet(values, key, MapGetOr0(values, key) + amount.n),
              err |-> NoError]

\* Counter.getValue that stores the default it returns for an absent key
Counter_getValue_creates(declared, values, arg) ==
    LET labels == IF IsUndefined(arg) THEN <<>> ELSE arg.a
        key == Stringify(labels)
    IN  IF LabelCountDiffers(labels, declared)
        THEN [values |-> values, err |-> LabelCountMismatch(Len(declared), Len(labels)),
              num |-> 0]
        ELSE [values |-> MapSet(values, key, MapGetOr0(values, key)), err |-> NoError,
              num |-> MapGetOr0(values, key)]

\* Counter.getValue(labels = []): the values map after the call, the error
\* thrown and the value returned
Counter_getValue(declared, values, arg) ==
    LET labels == IF IsUndefined(arg) THEN <<>> ELSE arg.a
    IN  IF LabelCountDiffers(labels, declared)
        THEN [values |-> values, err |-> LabelCountMismatch(Len(declared), Len(labels)),
              num |-> 0]
        ELSE [values |-> values, err |-> NoError,
              num |-> MapGetOr0(values, Stringify(labels))]

\* Counter.reset that clears nothing
Counter_reset_keeps(values) == values

\* Counter.reset(): this.values.clear()
Counter_reset(values) == <<>>

RECURSIVE Counter_labelText(_, _, _)
\* the inner for loop of Counter.toPrometheus, from index i
Counter_labelText(declared, splitKeys, i) ==
    IF i > Len(declared) THEN <<>>
    ELSE (IF i = 1 THEN <<"{">> ELSE <<>>)
         \o declared[i] \o <<"=", "\"">>
         \o (IF i <= Len(splitKeys) THEN splitKeys[i]
             ELSE <<"u", "n", "d", "e", "f", "i", "n", "e", "d">>)
         \o <<"\"">>
         \o (IF i # Len(declared) THEN <<",", " ">> ELSE <<>>)
         \o (IF i = Len(declared) THEN <<"}">> ELSE <<>>)
         \o Counter_labelText(declared, splitKeys, i + 1)

\* one data line of Counter.toPrometheus
Counter_line(name, declared, entry) ==
    name \o Counter_labelText(declared, Parse(entry.k), 1)
         \o <<" ">> \o NumToStr(entry.v) \o <<"\n">>

\* Counter.toPrometheus()
Counter_toPrometheus(name, help, declared, values) ==
    <<"#", " ", "H", "E", "L", "P", " ">> \o name \o <<" ">> \o help \o <<" ", "\n">>
    \o <<"#", " ", "T", "Y", "P", "E", " ">> \o name
    \o <<" ", "c", "o", "u", "n", "t", "e", "r", "\n">>
    \o Flatten([i \in 1..Len(values) |-> Counter_line(name, declared, values[i])])

\* amount < 0 as JavaScript evaluates it
LessThanZero_js(v) == (v.t = "num" /\ v.n < 0) \/ v = NegInf

\* the label list and the amount a Counter.inc call passes
PassedLabels(arg1) == IF IsArray(arg1) THEN arg1.a ELSE <<>>
PassedAmount(arg1, arg2) ==
    IF IsArray(arg1) THEN (IF IsUndefined(arg2) THEN Num(1) ELSE arg2)
    ELSE IF IsUndefined(arg1) THEN Num(1) ELSE arg1

\* an inc call drawn from `calls`; a successful one is made while `room` holds
CounterIncWith(calls, room) ==
    \E call \in calls :
        LET arg1 == call[1]
            arg2 == call[2]
            r == Counter_inc(cLabels, cValues, arg1, arg2)
        IN  /\ r.err = NoError => room
            /\ cValues' = r.values
            /\ cCalls' = IF r.err = NoError
                         THEN Append(cCalls, [labels |-> PassedLabels(arg1),
                                              amount |-> PassedAmount(arg1, arg2).n])
                         ELSE cCalls
            /\ ret' = Ret("Counter.inc", r.err, 0, <<>>)
            /\ UNCHANGED <<cLabels, gaugeVars, histVars, regVars, encVars, handVars>>

\* reset(); ret.num is the number of entries the map held before the call
CounterInc == CounterIncWith(Calls, Len(cCalls) < MaxOps)

CounterReset ==
    /\ cValues' = Counter_reset(cValues)
    /\ cCalls' = <<>>
    /\ ret' = Ret("Counter.reset", NoError, Len(cValues), <<>>)
    /\ UNCHANGED <<cLabels, gaugeVars, histVars, regVars, encVars, handVars>>

CounterGetValue ==
    \E arg \in {Undef} \cup {Arr(l) : l \in LabelLists} :
        LET r == Counter_getValue(cLabels, cValues, arg)
        IN  /\ cValues' = r.values
            /\ ret' = Ret("Counter.getValue", r.err, r.num, <<>>)
            /\ UNCHANGED <<cLabels, cCalls, gaugeVars, histVars, regVars, encVars, handVars>>

CounterToPrometheus ==
    /\ ret' = Ret("Counter.toPrometheus", NoError, 0,
                  Counter_toPrometheus(cName, cHelp, cLabels, cValues))
    /\ UNCHANGED <<counterVars, gaugeVars, histVars, regVars, encVars, handVars>>

InitRet == Ret("new", NoError, 0, <<>>)

\* new Registry()
NewRegistry ==
    /\ rMetrics = <<>>
    /\ rOrder = <<>>

\* the concurrent request handlers
Handlers == {1, 2}
\* no handler has made a call
NoHandlers ==
    hand = [h \in Handlers |->
                [done |-> 0, counter |-> 0, gauge |-> 0, observed |-> 0, observedSum |-> 0]]

\* no label list has been encoded
NoEncoding == enc = [labels |-> <<>>, key |-> <<>>, parsed |-> <<>>, stage |-> "idle"]

\* new Counter(name, help, labels)
NewCounter(labels) ==
    /\ cLabels = labels
    /\ cValues = <<>>
    /\ cCalls = <<>>

\* new Gauge(name, help, labels)
NewGauge(labels) ==
    /\ gLabels = labels
    /\ gValues = <<>>
    /\ gFold = [l \in GaugeLists |-> 0]
    /\ gOps = 0

RECURSIVE InsertSorted(_, _)
InsertSorted(x, sorted) ==
    IF sorted = <<>> THEN <<x>>
    ELSE IF x - Head(sorted) < 0 THEN <<x>> \o sorted
    ELSE <<Head(sorted)>> \o InsertSorted(x, Tail(sorted))

RECURSIVE SortAscending(_)
\* [...buckets].sort((a, b) => a - b)
SortAscending(bs) ==
    IF bs = <<>> THEN <<>> ELSE InsertSorted(Head(bs), SortAscending(Tail(bs)))

\* a constructor that sorts the caller's array in place and keeps it
Histogram_constructor_inPlace(buckets) ==
    [buckets |-> SortAscending(buckets), arg |-> SortAscending(buckets)]

\* this.buckets = [...buckets].sort((a, b) => a - b): the instance's array, a
\* sorted copy, and the caller's array after the call
Histogram_constructor(buckets) ==
    [buckets |-> SortAscending(buckets), arg |-> buckets]

\* new Histogram(name, help, buckets, labels)
NewHistogram(buckets, labels) ==
    /\ hArg = [given |-> buckets, kept |-> Histogram_constructor(buckets).arg]
    /\ hLabels = labels
    /\ hBuckets = Histogram_constructor(buckets).buckets
    /\ hCounts = <<>>
    /\ hTotalSum = <<>>
    /\ hTotalCount = <<>>
    /\ hCalls = <<>>

InitCounter ==
    /\ \E labels \in LabelNameSets : NewCounter(labels)
    /\ NewGauge(<<>>)
    /\ NewHistogram(<<1>>, <<>>)
    /\ ret = InitRet
    /\ NewRegistry
    /\ NoEncoding
    /\ NoHandlers

NextCounter ==
    \/ CounterInc
    \/ CounterReset
    \/ CounterGetValue
    \/ CounterToPrometheus

SpecCounter == InitCounter /\ [][NextCounter]_vars

\* ------------------------------------------------------- Counter: claims
\* label lists of the declared length
CounterKeys == {l \in LabelLists : Len(l) = Len(cLabels)}
\* getValue(l) in the current state
CounterValue(l) == Counter_getValue(cLabels, cValues, Arr(l))

RECURSIVE SumFor(_, _)
\* the sum of the amounts the recorded calls passed for label list l
SumFor(calls, l) ==
    IF calls = <<>> THEN 0
    ELSE (IF Head(calls).labels = l THEN Head(calls).amount ELSE 0)
         + SumFor(Tail(calls), l)

\* C1: after any sequence of successful inc calls since construction or the
\* last reset, getValue(k) succeeds for every label list k of the declared
\* length and equals the sum of the amounts passed for k (1 when omitted, 0
\* when k was never incremented), whatever the order of the calls.
C1_CounterValueIsSum ==
    \A l \in CounterKeys :
        /\ CounterValue(l).err = NoError
        /\ CounterValue(l).num = SumFor(cCalls, l)

\* C1 witness: one key incremented twice with different amounts and another
\* key incremented in between or around them.
C1_Witness ==
    /\ Len(cCalls) = 3
    /\ \E i, j, k \in 1..3 :
        /\ i < j
        /\ cCalls[i].labels = cCalls[j].labels
        /\ cCalls[i].amount = 1 /\ cCalls[j].amount = 2
        /\ cCalls[k].labels # cCalls[i].labels
    /\ \E l \in CounterKeys : CounterValue(l).num = 3

\* C5: between two resets getValue(k) never decreases, whatever inc call
\* (successful or failing, on k or on another key) or read is made.
C5_CounterNeverDecreases ==
    [][ret'.op # "Counter.reset" =>
        \A l \in CounterKeys :
            Counter_getValue(cLabels, cValues', Arr(l)).num >= CounterValue(l).num]_vars

\* C5 witness: a failing inc with a negative amount arrived at a key whose value is positive.
C5_Witness ==
    /\ ret.op = "Counter.inc"
    /\ ret.err = CannotDecrease
    /\ \E l \in CounterKeys : CounterValue(l).num > 0

\* the calls that pass a label list, or omit it (a number only, or nothing)
LabelCalls == {c \in Calls : IsArray(c[1]) \/ TypeofNumber(c[1]) \/ IsUndefined(c[1])}
\* the calls whose amount is below zero
NegativeCalls == {c \in LabelCalls : LessThanZero_js(PassedAmount(c[1], c[2]))}

\* C6 as claimed: every inc with an amount < 0 fails with 'Counter cannot be
\* decreased' and leaves the values unchanged.
C6_Original ==
    \A c \in NegativeCalls :
        LET r == Counter_inc(cLabels, cValues, c[1], c[2])
        IN  r.err = CannotDecrease /\ r.values = cValues

\* C6 amended: every inc with an amount < 0 fails and leaves every value
\* unchanged and creates no entry; the error is 'Counter cannot be decreased'
\* when the label list has the declared length and the amount is finite, the
\* label-count mismatch when the length differs, and the invalid-number
\* error for -Infinity with a label list of the declared length.
C6_NegativeIncFails ==
    \A c \in NegativeCalls :
        LET r == Counter_inc(cLabels, cValues, c[1], c[2])
            labels == PassedLabels(c[1])
            amount == PassedAmount(c[1], c[2])
        IN  /\ r.err # NoError
            /\ r.values = cValues
            /\ r.err = IF Len(labels) # Len(cLabels)
                       THEN LabelCountMismatch(Len(cLabels), Len(labels))
                       ELSE IF amount.t = "num" THEN CannotDecrease
                       ELSE AmountNotFinite

\* C6 witness: inc with a negative amount has failed on a counter that holds values.
C6_Witness ==
    /\ ret.op = "Counter.inc"
    /\ ret.err = CannotDecrease
    /\ cValues # <<>>

\* C9: inc and getValue with a label list whose length differs from the
\* number of declared label names fail with the label-count mismatch, and
\* the failed inc leaves every value unchanged and creates no entry.
C9_CounterLabelCountMismatch ==
    /\ \A c \in LabelCalls :
        Len(PassedLabels(c[1])) # Len(cLabels) =>
            LET r == Counter_inc(cLabels, cValues, c[1], c[2])
            IN  /\ r.err = LabelCountMismatch(Len(cLabels), Len(PassedLabels(c[1])))
                /\ r.values = cValues
    /\ \A l \in LabelLists :
        Len(l) # Len(cLabels) =>
            CounterValue(l).err = LabelCountMismatch(Len(cLabels), Len(l))

\* C9 witness: an inc with one label too few has failed on a two-label counter that holds a value.
C9_Witness ==
    /\ ret.op = "Counter.inc"
    /\ ret.err = LabelCountMismatch(2, 1)
    /\ cValues # <<>>

\* the amounts the finiteness check of inc has to reject
InvalidAmounts == {NaN, PosInf, NegInf, StrArg}

\* C12: Counter.inc with a label list of the declared length (or, on an
\* unlabeled counter, with the amount alone) and an amount that is NaN,
\* +Infinity, -Infinity or not a number fails with the TypeError 'Amount is
\* not a valid finite number' and leaves every stored value unchanged; for
\* -Infinity it is that error and not 'Counter cannot be decreased'.
C12_InvalidAmountFails ==
    \A c \in LabelCalls :
        LET labels == PassedLabels(c[1])
            amount == PassedAmount(c[1], c[2])
            r == Counter_inc(cLabels, cValues, c[1], c[2])
        IN  (Len(labels) = Len(cLabels) /\ amount \in InvalidAmounts) =>
                /\ r.err = AmountNotFinite
                /\ r.err.cls = "TypeError"
                /\ r.err # CannotDecrease
                /\ r.values = cValues

\* C12 witness: an inc with a correct label list has failed with the
\* invalid-number error on a labeled counter that holds a value.
C12_Witness ==
    /\ ret.op = "Counter.inc"
    /\ ret.err = AmountNotFinite
    /\ cLabels # <<>>
    /\ cValues # <<>>

\* ------------------------------------------------------------------ Gauge
\* Gauge.inc(arg1?, arg2?): the values map after the call and the error thrown
Gauge_inc(declared, values, arg1, arg2) ==
    LET noLabels == TypeofNumber(arg1) \/ IsUndefined(arg1)
        labels == IF noLabels THEN Arr(<<>>) ELSE arg1
        value == IF noLabels THEN Coalesce(arg1, Num(1)) ELSE Coalesce(arg2, Num(1))
        key == StringifyValue(labels)
    IN  IF LabelCountDiffers(labels.a, declared)
        THEN [values |-> values, err |-> LabelCountMismatch(Len(declared), Len(labels.a))]
        ELSE IF NotFiniteNumber(value)
        THEN [values |-> values, err |-> ValueNotFinite]
        ELSE [values |-> MapSet(values, key, MapGetOr0(values, key) + value.n),
              err |-> NoError]

\* Gauge.dec with `+ value`: adds instead of subtracting
Gauge_dec_adds(declared, values, arg1, arg2) == Gauge_inc(declared, values, arg1, arg2)

\* Gauge.dec(arg1?, arg2?)
Gauge_dec(declared, values, arg1, arg2) ==
    LET noLabels == TypeofNumber(arg1) \/ IsUndefined(arg1)
        labels == IF noLabels THEN Arr(<<>>) ELSE arg1
        value == IF noLabels THEN Coalesce(arg1, Num(1)) ELSE Coalesce(arg2, Num(1))
        key == StringifyValue(labels)
    IN  IF LabelCountDiffers(labels.a, declared)
        THEN [values |-> values, err |-> LabelCountMismatch(Len(declared), Len(labels.a))]
        ELSE IF NotFiniteNumber(value)
        THEN [values |-> values, err |-> ValueNotFinite]
        ELSE [values |-> MapSet(values, key, MapGetOr0(values, key) - value.n),
              err |-> NoError]

\* Gauge.set(arg1, arg2?): no label count check is made
Gauge_set(declared, values, arg1, arg2) ==
    LET labels == IF IsArray(arg1) THEN arg1.a ELSE <<>>
        value == IF TypeofNumber(arg1) THEN arg1 ELSE Coalesce(arg2, Num(0))
        key == Stringify(labels)
    IN  IF ~TypeofNumber(arg1) /\ ~IsArray(arg1)
        THEN [values |-> values, err |-> LabelsMustBeArray]
        ELSE IF NotFiniteNumber(value)
        THEN [values |-> values, err |-> ValueNotFinite]
        ELSE [values |-> MapSet(values, key, value.n), err |-> NoError]

\* Gauge.get(labels = []): the values map after the call, the error thrown
\* and the value returned
Gauge_get(declared, values, arg) ==
    LET labels == IF IsUndefined(arg) THEN <<>> ELSE arg.a
    IN  IF LabelCountDiffers(labels, declared)
        THEN [values |-> values, err |-> LabelCountMismatchBare, num |-> 0]
        ELSE [values |-> values, err |-> NoError,
              num |-> MapGetOr0(values, Stringify(labels))]

\* Gauge.reset(): this.values.clear()
Gauge_reset(values) == <<>>

RECURSIVE Gauge_labelText(_, _, _)
\* the inner for loop of Gauge.toPrometheus, from index i
Gauge_labelText(declared, splitKeys, i) ==
    IF i > Len(declared) THEN <<>>
    ELSE (IF i = 1 THEN <<"{">> ELSE <<>>)
         \o declared[i] \o <<"=", "\"">>
         \o (IF i <= Len(splitKeys) THEN splitKeys[i]
             ELSE <<"u", "n", "d", "e", "f", "i", "n", "e", "d">>)
         \o <<"\"">>
         \o (IF i # Len(declared) THEN <<",", " ">> ELSE <<>>)
         \o (IF i = Len(declared) THEN <<"}", " ">> ELSE <<>>)
         \o Gauge_labelText(declared, splitKeys, i + 1)

\* one data line of Gauge.toPrometheus
Gauge_line(name, declared, entry) ==
    name \o <<" ">> \o Gauge_labelText(declared, Parse(entry.k), 1)
         \o NumToStr(entry.v) \o <<"\n">>

\* Gauge.toPrometheus()
Gauge_toPrometheus(name, help, declared, values) ==
    <<"#", " ", "H", "E", "L", "P", " ">> \o name \o <<" ">> \o help \o <<" ", "\n">>
    \o <<"#", " ", "T", "Y", "P", "E", " ">> \o name
    \o <<" ", "g", "a", "u", "g", "e", " ", "\n">>
    \o Flatten([i \in 1..Len(values) |-> Gauge_line(name, declared, values[i])])

\* the number a Gauge call passes: the delta of inc/dec (1 when omitted), the value of set
GaugePassedValue(op, arg1, arg2) ==
    IF IsArray(arg1)
    THEN (IF IsUndefined(arg2) THEN (IF op = "set" THEN Num(0) ELSE Num(1)) ELSE arg2)
    ELSE IF IsUndefined(arg1) THEN Num(1) ELSE arg1

\* one step of the left-to-right fold: set overwrites, inc adds, dec subtracts
FoldStep(op, old, v) ==
    IF op = "set" THEN v ELSE IF op = "inc" THEN old + v ELSE old - v

\* a Gauge mutation `op` with result r; a successful one is made while `room` holds
GaugeMutation(op, arg1, arg2, r, room) ==
    /\ r.err = NoError => room
    /\ gValues' = r.values
    /\ gFold' = IF r.err = NoError
                THEN [gFold EXCEPT ![PassedLabels(arg1)] =
                        FoldStep(op, @, GaugePassedValue(op, arg1, arg2).n)]
                ELSE gFold
    /\ gOps' = IF r.err = NoError THEN gOps + 1 ELSE gOps
    /\ ret' = Ret("Gauge." \o op, r.err, 0, <<>>)
    /\ UNCHANGED <<gLabels, counterVars, histVars, regVars, encVars, handVars>>

GaugeIncWith(calls, room) ==
    \E call \in calls :
        GaugeMutation("inc", call[1], call[2],
                      Gauge_inc(gLabels, gValues, call[1], call[2]), room)

GaugeDecWith(calls, room) ==
    \E call \in calls :
        GaugeMutation("dec", call[1], call[2],
                      Gauge_dec(gLabels, gValues, call[1], call[2]), room)

GaugeSetWith(calls, room) ==
    \E call \in calls :
        GaugeMutation("set", call[1], call[2],
                      Gauge_set(gLabels, gValues, call[1], call[2]), room)

GaugeInc == GaugeIncWith(GaugeCalls, gOps < MaxOps)

GaugeDec == GaugeDecWith(GaugeCalls, gOps < MaxOps)

GaugeSet == GaugeSetWith(GaugeCalls, gOps < MaxOps)

GaugeGet ==
    \E arg \in {Undef} \cup {Arr(l) : l \in GaugeLists} :
        LET r == Gauge_get(gLabels, gValues, arg)
        IN  /\ gValues' = r.values
            /\ ret' = Ret("Gauge.get", r.err, r.num, <<>>)
            /\ UNCHANGED <<gLabels, gFold, gOps, counterVars, histVars, regVars, encVars, handVars>>

\* reset(); ret.num is the number of entries the map held before the call
GaugeReset ==
    /\ gValues' = Gauge_reset(gValues)
    /\ gFold' = [l \in GaugeLists |-> 0]
    /\ gOps' = 0
    /\ ret' = Ret("Gauge.reset", NoError, Len(gValues), <<>>)
    /\ UNCHANGED <<gLabels, counterVars, histVars, regVars, encVars, handVars>>

GaugeToPrometheus ==
    /\ ret' = Ret("Gauge.toPrometheus", NoError, 0,
                  Gauge_toPrometheus(gName, gHelp, gLabels, gValues))
    /\ UNCHANGED <<counterVars, gaugeVars, histVars, regVars, encVars, handVars>>

InitGauge ==
    /\ NewCounter(<<>>)
    /\ \E labels \in GaugeLabelNameSets : NewGauge(labels)
    /\ NewHistogram(<<1>>, <<>>)
    /\ ret = InitRet
    /\ NewRegistry
    /\ NoEncoding
    /\ NoHandlers

NextGauge ==
    \/ GaugeInc
    \/ GaugeDec
    \/ GaugeSet
    \/ GaugeGet
    \/ GaugeReset
    \/ GaugeToPrometheus

SpecGauge == InitGauge /\ [][NextGauge]_vars

\* -------------------------------------------------------------- Histogram
RECURSIVE Histogram_newBucketMap(_, _)
\* new Map(this.buckets.map(b => [b, 0])), applied to the bounds left to insert
Histogram_newBucketMap(m, buckets) ==
    IF buckets = <<>> THEN m
    ELSE Histogram_newBucketMap(MapSet(m, Head(buckets), 0), Tail(buckets))

\* an observe that leaves the bucket counts as they are
Histogram_incBuckets_none(bucketMap, buckets, value) == bucketMap

RECURSIVE Histogram_incBuckets(_, _, _)
\* for (const bucket of this.buckets) if (value <= bucket) bucketMap.set(bucket, ... + 1)
Histogram_incBuckets(bucketMap, buckets, value) ==
    IF buckets = <<>> THEN bucketMap
    ELSE Histogram_incBuckets(
            IF value <= Head(buckets)
            THEN MapSet(bucketMap, Head(buckets), MapGetOr0(bucketMap, Head(buckets)) + 1)
            ELSE bucketMap,
            Tail(buckets), value)

\* the totals' update with the sum left as it was
Histogram_addTotals_noSum(h, key, value) ==
    [h EXCEPT !.totalCount = MapSet(@, key, MapGetOr0(@, key) + 1)]

\* the totals' update with the sum replaced by the value observed last
Histogram_addTotals_lastValue(h, key, value) ==
    [h EXCEPT !.totalSum = MapSet(@, key, value),
              !.totalCount = MapSet(@, key, MapGetOr0(@, key) + 1)]

\* this.totalSum.set(key, ... + value); this.totalCount.set(key, ... + 1)
Histogram_addTotals(h, key, value) ==
    [h EXCEPT !.totalSum = MapSet(@, key, MapGetOr0(@, key) + value),
              !.totalCount = MapSet(@, key, MapGetOr0(@, key) + 1)]

\* Histogram.observe with the lazy initialisation of the key moved before the
\* finiteness check: a rejected value leaves an all-zero entry behind
Histogram_observe_initFirst(declared, buckets, h, arg1, arg2) ==
    LET labels == IF IsArray(arg1) THEN arg1.a ELSE <<>>
        value == IF TypeofNumber(arg1) THEN arg1 ELSE arg2
        key == Stringify(labels)
        init == IF ~MapHas(h.counts, key)
                THEN [counts |-> MapSet(h.counts, key, Histogram_newBucketMap(<<>>, buckets)),
                      totalSum |-> MapSet(h.totalSum, key, 0),
                      totalCount |-> MapSet(h.totalCount, key, 0)]
                ELSE h
        bucketMap == init.counts[MapIndex(init.counts, key, 1)].v
        counted == [init EXCEPT !.counts =
                        MapSet(@, key, Histogram_incBuckets(bucketMap, buckets, value.n))]
    IN  IF ~TypeofNumber(arg1) /\ IsArray(arg1) /\ ~TypeofNumber(arg2)
        THEN [h |-> h, err |-> ValueMustBeNumber]
        ELSE IF ~TypeofNumber(arg1) /\ ~IsArray(arg1)
        THEN [h |-> h, err |-> InvalidArgumentType]
        ELSE IF LabelCountDiffers(labels, declared)
        THEN [h |-> h, err |-> LabelCountMismatch(Len(declared), Len(labels))]
        ELSE IF NotFiniteNumber(value)
        THEN [h |-> init, err |-> ValueNotFinite]
        ELSE [h |-> Histogram_addTotals(counted, key, value.n), err |-> NoError]

\* Histogram.observe(arg1, arg2?) on h = [counts, totalSum, totalCount]
Histogram_observe(declared, buckets, h, arg1, arg2) ==
    LET labels == IF IsArray(arg1) THEN arg1.a ELSE <<>>
        value == IF TypeofNumber(arg1) THEN arg1 ELSE arg2
        key == Stringify(labels)
        init == IF ~MapHas(h.counts, key)
                THEN [counts |-> MapSet(h.counts, key, Histogram_newBucketMap(<<>>, buckets)),
                      totalSum |-> MapSet(h.totalSum, key, 0),
                      totalCount |-> MapSet(h.totalCount, key, 0)]
                ELSE h
        bucketMap == init.counts[MapIndex(init.counts, key, 1)].v
        counted == [init EXCEPT !.counts =
                        MapSet(@, key, Histogram_incBuckets(bucketMap, buckets, value.n))]
    IN  IF ~TypeofNumber(arg1) /\ IsArray(arg1) /\ ~TypeofNumber(arg2)
        THEN [h |-> h, err |-> ValueMustBeNumber]
        ELSE IF ~TypeofNumber(arg1) /\ ~IsArray(arg1)
        THEN [h |-> h, err |-> InvalidArgumentType]
        ELSE IF LabelCountDiffers(labels, declared)
        THEN [h |-> h, err |-> LabelCountMismatch(Len(declared), Len(labels))]
        ELSE IF NotFiniteNumber(value)
        THEN [h |-> h, err |-> ValueNotFinite]
        ELSE [h |-> Histogram_addTotals(counted, key, value.n), err |-> NoError]

\* Histogram.get(labels = []): the maps after the call, the error thrown and
\* the totals returned
Histogram_get(declared, h, arg) ==
    LET labels == IF IsUndefined(arg) THEN <<>> ELSE arg.a
        key == Stringify(labels)
    IN  IF LabelCountDiffers(labels, declared)
        THEN [h |-> h, err |-> LabelCountMismatch(Len(declared), Len(labels)),
              totalCount |-> 0, totalSum |-> 0]
        ELSE [h |-> h, err |-> NoError,
              totalCount |-> MapGetOr0(h.totalCount, key),
              totalSum |-> MapGetOr0(h.totalSum, key)]

\* a reset that leaves totalSum as it is
Histogram_reset_keepsSum(h) == [counts |-> <<>>, totalSum |-> h.totalSum, totalCount |-> <<>>]

\* Histogram.reset(): counts, totalSum and totalCount cleared
Histogram_reset(h) == [counts |-> <<>>, totalSum |-> <<>>, totalCount |-> <<>>]

\* splitKeys[i] in a template string
SplitKeyText(splitKeys, i) ==
    IF i <= Len(splitKeys) THEN splitKeys[i]
    ELSE <<"u", "n", "d", "e", "f", "i", "n", "e", "d">>

RECURSIVE Histogram_bucketLabels(_, _, _)
\* the label loop of a _bucket line: every label is followed by ', '
Histogram_bucketLabels(declared, splitKeys, i) ==
    IF i > Len(declared) THEN <<>>
    ELSE declared[i] \o <<"=", "\"">> \o SplitKeyText(splitKeys, i) \o <<"\"", ",", " ">>
         \o Histogram_bucketLabels(declared, splitKeys, i + 1)

RECURSIVE Histogram_plainLabels(_, _, _)
\* the label loop of the _sum and _count lines: ', ' between labels only
Histogram_plainLabels(declared, splitKeys, i) ==
    IF i > Len(declared) THEN <<>>
    ELSE declared[i] \o <<"=", "\"">> \o SplitKeyText(splitKeys, i) \o <<"\"">>
         \o (IF i < Len(declared) THEN <<",", " ">> ELSE <<>>)
         \o Histogram_plainLabels(declared, splitKeys, i + 1)

\* one _bucket line with le text `le` and count `count`
Histogram_bucketLine(name, declared, splitKeys, le, count) ==
    name \o <<"_", "b", "u", "c", "k", "e", "t">>
    \o <<"{">> \o Histogram_bucketLabels(declared, splitKeys, 1)
    \o <<"l", "e", "=", "\"">> \o le \o <<"\"", "}">>
    \o <<" ">> \o NumToStr(count) \o <<"\n">>

\* the _sum or _count line
Histogram_totalLine(name, suffix, declared, splitKeys, total) ==
    name \o suffix
    \o (IF Len(declared) > 0
        THEN <<"{">> \o Histogram_plainLabels(declared, splitKeys, 1) \o <<"}">>
        ELSE <<>>)
    \o <<" ">> \o NumToStr(total) \o <<"\n">>

\* the lines of one key with the +Inf bucket line written before the bounds'
Histogram_keyText_infFirst(name, declared, buckets, h, entry) ==
    LET splitKeys == Parse(entry.k)
    IN  Histogram_bucketLine(name, declared, splitKeys, <<"+", "I", "n", "f">>,
                             MapGetOr0(h.totalCount, entry.k))
        \o Flatten([i \in 1..Len(buckets) |->
            Histogram_bucketLine(name, declared, splitKeys, NumToStr(buckets[i]),
                                 MapGetOr0(entry.v, buckets[i]))])
        \o Histogram_totalLine(name, <<"_", "s", "u", "m">>, declared, splitKeys,
                               MapGetOr0(h.totalSum, entry.k))
        \o Histogram_totalLine(name, <<"_", "c", "o", "u", "n", "t">>, declared, splitKeys,
                               MapGetOr0(h.totalCount, entry.k))

\* the lines Histogram.toPrometheus emits for one entry of this.counts
Histogram_keyText(name, declared, buckets, h, entry) ==
    LET splitKeys == Parse(entry.k)
    IN  Flatten([i \in 1..Len(buckets) |->
            Histogram_bucketLine(name, declared, splitKeys, NumToStr(buckets[i]),
                                 MapGetOr0(entry.v, buckets[i]))])
        \o Histogram_bucketLine(name, declared, splitKeys, <<"+", "I", "n", "f">>,
                                MapGetOr0(h.totalCount, entry.k))
        \o Histogram_totalLine(name, <<"_", "s", "u", "m">>, declared, splitKeys,
                               MapGetOr0(h.totalSum, entry.k))
        \o Histogram_totalLine(name, <<"_", "c", "o", "u", "n", "t">>, declared, splitKeys,
                               MapGetOr0(h.totalCount, entry.k))

\* Histogram.toPrometheus()
Histogram_toPrometheus(name, help, declared, buckets, h) ==
    <<"#", " ", "H", "E", "L", "P", " ">> \o name \o <<" ">> \o help \o <<"\n">>
    \o <<"#", " ", "T", "Y", "P", "E", " ">> \o name
    \o <<" ", "h", "i", "s", "t", "o", "g", "r", "a", "m", "\n">>
    \o Flatten([i \in 1..Len(h.counts) |->
            Histogram_keyText(name, declared, buckets, h, h.counts[i])])

\* the Histogram's three maps as one record
HistState == [counts |-> hCounts, totalSum |-> hTotalSum, totalCount |-> hTotalCount]

\* an observe call drawn from `calls`; a successful one is made while `room` holds
HistogramObserveWith(calls, room) ==
    \E call \in calls :
        LET r == Histogram_observe(hLabels, hBuckets, HistState, call[1], call[2])
        IN  /\ r.err = NoError => room
            /\ hCounts' = r.h.counts
            /\ hTotalSum' = r.h.totalSum
            /\ hTotalCount' = r.h.totalCount
            /\ hCalls' = IF r.err = NoError
                         THEN Append(hCalls, [labels |-> PassedLabels(call[1]),
                                              value |-> (IF IsArray(call[1]) THEN call[2]
                                                         ELSE call[1]).n])
                         ELSE hCalls
            /\ ret' = Ret("Histogram.observe", r.err, 0, <<>>)
            /\ UNCHANGED <<hArg, hLabels, hBuckets, counterVars, gaugeVars, regVars, encVars, handVars>>

HistogramObserve == HistogramObserveWith(HistCalls, Len(hCalls) < MaxOps)

HistogramGet ==
    \E arg \in {Undef} \cup {Arr(l) : l \in HistLists} :
        LET r == Histogram_get(hLabels, HistState, arg)
        IN  /\ hCounts' = r.h.counts
            /\ hTotalSum' = r.h.totalSum
            /\ hTotalCount' = r.h.totalCount
            /\ ret' = [Ret("Histogram.get", r.err, r.totalCount, <<>>)
                          EXCEPT !.sum = r.totalSum]
            /\ UNCHANGED <<hArg, hLabels, hBuckets, hCalls, counterVars, gaugeVars, regVars, encVars, handVars>>

\* reset(); ret.num is the number of keys the histogram held before the call
HistogramReset ==
    /\ hCounts' = Histogram_reset(HistState).counts
    /\ hTotalSum' = Histogram_reset(HistState).totalSum
    /\ hTotalCount' = Histogram_reset(HistState).totalCount
    /\ hCalls' = <<>>
    /\ ret' = Ret("Histogram.reset", NoError, Len(hCounts), <<>>)
    /\ UNCHANGED <<hArg, hLabels, hBuckets, counterVars, gaugeVars, regVars, encVars, handVars>>

HistogramToPrometheus ==
    /\ ret' = Ret("Histogram.toPrometheus", NoError, 0,
                  Histogram_toPrometheus(hName, hHelp, hLabels, hBuckets, HistState))
    /\ UNCHANGED <<counterVars, gaugeVars, histVars, regVars, encVars, handVars>>

InitHistogram ==
    /\ NewCounter(<<>>)
    /\ NewGauge(<<>>)
    /\ \E buckets \in BucketLists, labels \in HistLabelNameSets :
            NewHistogram(buckets, labels)
    /\ ret = InitRet
    /\ NewRegistry
    /\ NoEncoding
    /\ NoHandlers

NextHistogram ==
    \/ HistogramObserve
    \/ HistogramGet
    \/ HistogramReset
    \/ HistogramToPrometheus

SpecHistogram == InitHistogram /\ [][NextHistogram]_vars

\* ------------------------------------------------- the three metrics together
Init ==
    /\ \E labels \in LabelNameSets : NewCounter(labels)
    /\ \E labels \in GaugeLabelNameSets : NewGauge(labels)
    /\ \E buckets \in BucketLists, labels \in HistLabelNameSets :
            NewHistogram(buckets, labels)
    /\ ret = InitRet
    /\ NewRegistry
    /\ NoEncoding
    /\ NoHandlers

Next == NextCounter \/ NextGauge \/ NextHistogram

Spec == Init /\ [][Next]_vars

\* ------------------------------------- three metrics used side by side
\* a program that holds one Counter, one Gauge and one Histogram, all
\* unlabeled or all with one label, and makes a few calls on each
SharedLabelNameSets == {<<>>, <<<<"m">>>>}
SharedCounterCalls ==
    {<<Undef, Undef>>, <<Arr(<<<<"a">>>>), Undef>>, <<Arr(<<<<"\"">>>>), Num(2)>>,
     <<Arr(<<<<"a">>>>), NaN>>}
SharedGaugeSetCalls ==
    {<<Num(2), Undef>>, <<Arr(<<<<"a">>>>), Num(2)>>, <<Arr(<<<<"\"">>>>), Num(-1)>>}
SharedGaugeDeltaCalls == {<<Undef, Undef>>, <<Arr(<<<<"a">>>>), Undef>>}
SharedHistCalls ==
    {<<Num(2), Undef>>, <<Arr(<<<<"a">>>>), Num(1)>>, <<Arr(<<<<"\"">>>>), Num(3)>>,
     <<Arr(<<<<"a">>>>), NaN>>}

\* successful mutations recorded over the three metrics
TotalOps == Len(cCalls) + gOps + Len(hCalls)

SharedCounterInc == CounterIncWith(SharedCounterCalls, TotalOps < MaxMetricOps)
SharedGaugeInc == GaugeIncWith(SharedGaugeDeltaCalls, TotalOps < MaxMetricOps)
SharedGaugeDec == GaugeDecWith(SharedGaugeDeltaCalls, TotalOps < MaxMetricOps)
SharedGaugeSet == GaugeSetWith(SharedGaugeSetCalls, TotalOps < MaxMetricOps)
SharedHistogramObserve == HistogramObserveWith(SharedHistCalls, TotalOps < MaxMetricOps)

InitMetrics ==
    /\ \E labels \in SharedLabelNameSets :
        /\ NewCounter(labels)
        /\ NewGauge(labels)
        /\ NewHistogram(<<1, 2>>, labels)
    /\ ret = InitRet
    /\ NewRegistry
    /\ NoEncoding
    /\ NoHandlers

NextMetrics ==
    \/ SharedCounterInc
    \/ SharedGaugeInc
    \/ SharedGaugeDec
    \/ SharedGaugeSet
    \/ SharedHistogramObserve
    \/ CounterGetValue
    \/ GaugeGet
    \/ HistogramGet
    \/ CounterToPrometheus
    \/ GaugeToPrometheus
    \/ HistogramToPrometheus
    \/ CounterReset
    \/ GaugeReset
    \/ HistogramReset

SpecMetrics == InitMetrics /\ [][NextMetrics]_vars

\* --------------------------------------------------------------- Registry
\* the metric instances a program can register and the names it uses
Metrics == {"counter", "gauge", "histogram"}
RegistryNames == {<<"x">>, <<"y">>, <<"z">>}

\* Registry.register without the has() test: a second registration overwrites
Registry_register_overwrite(metrics, name, metric) ==
    [metrics |-> MapSet(metrics, name, metric), err |-> NoError]

\* a register that admits an instance under one name only
Registry_register_oneName(metrics, name, metric) ==
    IF MapHas(metrics, name) \/ \E i \in 1..Len(metrics) : metrics[i].v = metric
    THEN [metrics |-> metrics, err |-> AlreadyRegistered]
    ELSE [metrics |-> MapSet(metrics, name, metric), err |-> NoError]

\* Registry.register(name, metric): the map after the call and the error thrown
Registry_register(metrics, name, metric) ==
    IF MapHas(metrics, name)
    THEN [metrics |-> metrics, err |-> AlreadyRegistered]
    ELSE [metrics |-> MapSet(metrics, name, metric), err |-> NoError]

\* Registry.unregister that empties the registry
Registry_unregister_all(metrics, name) ==
    [metrics |-> <<>>, result |-> MapHas(metrics, name)]

\* Registry.unregister(name): the map after the call and the boolean returned
Registry_unregister(metrics, name) ==
    [metrics |-> MapDelete(metrics, name), result |-> MapHas(metrics, name)]

\* Registry.getMetric(name): the metric, or undefined
Registry_getMetric(metrics, name) ==
    IF MapHas(metrics, name) THEN metrics[MapIndex(metrics, name, 1)].v ELSE "undefined"

\* a clear() that keeps the entries
Registry_clear_keeps(metrics) == metrics

\* Registry.clear()
Registry_clear(metrics) == <<>>

\* Registry.getMetricNames(): Array.from(this._metrics.keys())
Registry_getMetricNames(metrics) == [i \in 1..Len(metrics) |-> metrics[i].k]

\* metric.toPrometheus() of a registered instance
Metric_toPrometheus(metric) ==
    IF metric = "counter" THEN Counter_toPrometheus(cName, cHelp, cLabels, cValues)
    ELSE IF metric = "gauge" THEN Gauge_toPrometheus(gName, gHelp, gLabels, gValues)
    ELSE Histogram_toPrometheus(hName, hHelp, hLabels, hBuckets, HistState)

RECURSIVE Registry_metricsFrom(_, _, _)
\* the loop of Registry.metrics(): output += metric.toPrometheus()
Registry_metricsFrom(metrics, i, output) ==
    IF i > Len(metrics) THEN output
    ELSE Registry_metricsFrom(metrics, i + 1, output \o Metric_toPrometheus(metrics[i].v))

\* a metrics() that renders the first entry only
Registry_metrics_first(metrics) ==
    IF metrics = <<>> THEN <<>> ELSE Metric_toPrometheus(metrics[1].v)

\* Registry.metrics()
Registry_metrics(metrics) == Registry_metricsFrom(metrics, 1, <<>>)

\* a resetAll() that reaches every instance, registered or not
IsRegistered_always(metrics, metric) == TRUE

\* whether resetAll() reaches this instance
IsRegistered(metrics, metric) == \E i \in 1..Len(metrics) : metrics[i].v = metric

\* the name removed from a list of names
WithoutName(names, name) == SelectSeq(names, LAMBDA n : n # name)

RegistryRegister ==
    \E name \in RegistryNames, metric \in Metrics :
        LET r == Registry_register(rMetrics, name, metric)
        IN  /\ rMetrics' = r.metrics
            /\ rOrder' = IF r.err = NoError THEN Append(rOrder, name) ELSE rOrder
            /\ ret' = [Ret("Registry.register", r.err, 0, <<>>)
                          EXCEPT !.name = name, !.val = metric]
            /\ UNCHANGED <<counterVars, gaugeVars, histVars, encVars, handVars>>

RegistryUnregister ==
    \E name \in RegistryNames :
        LET r == Registry_unregister(rMetrics, name)
        IN  /\ rMetrics' = r.metrics
            /\ rOrder' = WithoutName(rOrder, name)
            /\ ret' = [Ret("Registry.unregister", NoError, 0, <<>>)
                          EXCEPT !.name = name,
                                 !.val = IF r.result THEN "true" ELSE "false"]
            /\ UNCHANGED <<counterVars, gaugeVars, histVars, encVars, handVars>>

RegistryGetMetric ==
    \E name \in RegistryNames :
        /\ ret' = [Ret("Registry.getMetric", NoError, 0, <<>>)
                      EXCEPT !.name = name, !.val = Registry_getMetric(rMetrics, name)]
        /\ UNCHANGED <<counterVars, gaugeVars, histVars, regVars, encVars, handVars>>

\* clear(); the call record notes how many entries were removed
RegistryClear ==
    /\ rMetrics' = Registry_clear(rMetrics)
    /\ rOrder' = <<>>
    /\ ret' = Ret("Registry.clear", NoError, Len(rMetrics), <<>>)
    /\ UNCHANGED <<counterVars, gaugeVars, histVars, encVars, handVars>>

RegistryGetMetricNames ==
    /\ ret' = [Ret("Registry.getMetricNames", NoError, 0, <<>>)
                  EXCEPT !.names = Registry_getMetricNames(rMetrics)]
    /\ UNCHANGED <<counterVars, gaugeVars, histVars, regVars, encVars, handVars>>

RegistryMetrics ==
    /\ ret' = Ret("Registry.metrics", NoError, 0, Registry_metrics(rMetrics))
    /\ UNCHANGED <<counterVars, gaugeVars, histVars, regVars, encVars, handVars>>

\* the number of key entries the registered instances hold
EntriesReached ==
    (IF IsRegistered(rMetrics, "counter") THEN Len(cValues) ELSE 0)
    + (IF IsRegistered(rMetrics, "gauge") THEN Len(gValues) ELSE 0)
    + (IF IsRegistered(rMetrics, "histogram") THEN Len(hCounts) ELSE 0)

\* resetAll(): metric.reset() on every registered instance; the call record
\* notes how many key entries were removed
RegistryResetAll ==
    /\ IF IsRegistered(rMetrics, "counter")
       THEN cValues' = Counter_reset(cValues) /\ cCalls' = <<>>
       ELSE UNCHANGED <<cValues, cCalls>>
    /\ IF IsRegistered(rMetrics, "gauge")
       THEN /\ gValues' = Gauge_reset(gValues)
            /\ gFold' = [l \in GaugeLists |-> 0]
            /\ gOps' = 0
       ELSE UNCHANGED <<gValues, gFold, gOps>>
    /\ IF IsRegistered(rMetrics, "histogram")
       THEN /\ hCounts' = Histogram_reset(HistState).counts
            /\ hTotalSum' = Histogram_reset(HistState).totalSum
            /\ hTotalCount' = Histogram_reset(HistState).totalCount
            /\ hCalls' = <<>>
       ELSE UNCHANGED <<hCounts, hTotalSum, hTotalCount, hCalls>>
    /\ ret' = Ret("Registry.resetAll", NoError, EntriesReached, <<>>)
    /\ UNCHANGED <<cLabels, gLabels, hArg, hLabels, hBuckets, regVars, encVars, handVars>>

\* the calls the metrics receive between the Registry calls: the counter is
\* given a first key and then a second, the gauge and the histogram one key,
\* and again after a reset
RegistryCounterCalls == {<<Arr(<<<<"a">>>>), Undef>>, <<Arr(<<<<"\"">>>>), Num(2)>>}
\* the call of the counter that is due: inc(['a']) on an empty counter, then
\* inc(['"'], 2)
RegistryCounterDue ==
    {c \in RegistryCounterCalls :
        IF c[2] = Undef THEN cValues = <<>> ELSE Len(cValues) = 1}
RegistryGaugeCalls == {<<Arr(<<<<"a">>>>), Num(2)>>}
RegistryHistCalls == {<<Arr(<<<<"a">>>>), Num(1)>>}

RegistryCounterInc == CounterIncWith(RegistryCounterDue, TRUE)
RegistryGaugeSet == GaugeSetWith(RegistryGaugeCalls, gValues = <<>>)
RegistryHistogramObserve == HistogramObserveWith(RegistryHistCalls, hCounts = <<>>)

InitRegistry ==
    /\ NewCounter(<<<<"m">>>>)
    /\ NewGauge(<<<<"m">>>>)
    /\ NewHistogram(<<1, 2>>, <<<<"m">>>>)
    /\ ret = InitRet
    /\ NewRegistry
    /\ NoEncoding
    /\ NoHandlers

NextRegistry ==
    \/ RegistryRegister
    \/ RegistryUnregister
    \/ RegistryGetMetric
    \/ RegistryClear
    \/ RegistryGetMetricNames
    \/ RegistryMetrics
    \/ RegistryResetAll
    \/ RegistryCounterInc
    \/ RegistryGaugeSet
    \/ RegistryHistogramObserve

SpecRegistry == InitRegistry /\ [][NextRegistry]_vars

\* ------------------------------------------------------- the key encoding
\* label values with the characters JSON.stringify has to keep apart:
\* commas, quotes, brackets, backslashes, and the empty string
KeyStrings ==
    {<<>>, <<"a">>, <<",">>, <<"\"">>, <<"\\">>, <<"[">>, <<"]">>,
     <<"\"", ",", "\"">>, <<"\\", "\"">>, <<"a", ",", "a">>}

RECURSIVE ListsOver(_, _)
\* the sequences of at most n elements of S
ListsOver(S, n) ==
    IF n = 0 THEN {<<>>}
    ELSE LET shorter == ListsOver(S, n - 1)
         IN  shorter \cup {Append(l, x) : l \in {t \in shorter : Len(t) = n - 1}, x \in S}

KeyLists == ListsOver(KeyStrings, MaxKeyLabels)

\* const key = JSON.stringify(labels)
EncodeKey ==
    /\ enc.stage = "new"
    /\ enc' = [enc EXCEPT !.key = Stringify(enc.labels), !.stage = "encoded"]
    /\ UNCHANGED <<counterVars, gaugeVars, histVars, ret, regVars, handVars>>

\* const splitKeys = JSON.parse(key)
DecodeKey ==
    /\ enc.stage = "encoded"
    /\ enc' = [enc EXCEPT !.parsed = Parse(enc.key), !.stage = "decoded"]
    /\ UNCHANGED <<counterVars, gaugeVars, histVars, ret, regVars, handVars>>

InitEncode ==
    /\ NewCounter(<<>>)
    /\ NewGauge(<<>>)
    /\ NewHistogram(<<1>>, <<>>)
    /\ ret = InitRet
    /\ NewRegistry
    /\ \E l \in KeyLists :
        enc = [labels |-> l, key |-> <<>>, parsed |-> <<>>, stage |-> "new"]
    /\ NoHandlers

NextEncode ==
    \/ EncodeKey
    \/ DecodeKey

SpecEncode == InitEncode /\ [][NextEncode]_vars

\* ------------------------------------------- concurrent request handlers
\* Node runs the request handlers on one thread: handlers interleave between
\* their calls, and a call of a metric, which holds no await, runs to its end
\* as one step.  Every handler works on the same key of the same three
\* instances.
HandlerKey == <<<<"a">>>>
HandlerAmounts == {Num(1), Num(2)}
HandlerValues == {Num(2)}

\* handler h has a call left
HandlerReady(h) == hand[h].done < MaxHandlerCalls

\* counter.inc(labels, amount) in handler h
HandlerCounterInc ==
    \E h \in Handlers, amount \in HandlerAmounts :
        LET r == Counter_inc(cLabels, cValues, Arr(HandlerKey), amount)
        IN  /\ HandlerReady(h)
            /\ cValues' = r.values
            /\ cCalls' = Append(cCalls, [labels |-> HandlerKey, amount |-> amount.n])
            /\ hand' = [hand EXCEPT ![h].done = @ + 1, ![h].counter = @ + amount.n]
            /\ ret' = Ret("Counter.inc", r.err, 0, <<>>)
            /\ UNCHANGED <<cLabels, gaugeVars, histVars, regVars, encVars>>

\* gauge.inc(labels, amount) in handler h
HandlerGaugeInc ==
    \E h \in Handlers, amount \in HandlerAmounts :
        LET r == Gauge_inc(gLabels, gValues, Arr(HandlerKey), amount)
        IN  /\ HandlerReady(h)
            /\ gValues' = r.values
            /\ gFold' = [gFold EXCEPT ![HandlerKey] = FoldStep("inc", @, amount.n)]
            /\ gOps' = gOps + 1
            /\ hand' = [hand EXCEPT ![h].done = @ + 1, ![h].gauge = @ + amount.n]
            /\ ret' = Ret("Gauge.inc", r.err, 0, <<>>)
            /\ UNCHANGED <<gLabels, counterVars, histVars, regVars, encVars>>

\* gauge.dec(labels, amount) in handler h
HandlerGaugeDec ==
    \E h \in Handlers, amount \in HandlerAmounts :
        LET r == Gauge_dec(gLabels, gValues, Arr(HandlerKey), amount)
        IN  /\ HandlerReady(h)
            /\ gValues' = r.values
            /\ gFold' = [gFold EXCEPT ![HandlerKey] = FoldStep("dec", @, amount.n)]
            /\ gOps' = gOps + 1
            /\ hand' = [hand EXCEPT ![h].done = @ + 1, ![h].gauge = @ - amount.n]
            /\ ret' = Ret("Gauge.dec", r.err, 0, <<>>)
            /\ UNCHANGED <<gLabels, counterVars, histVars, regVars, encVars>>

\* histogram.observe(labels, value) in handler h
HandlerHistogramObserve ==
    \E h \in Handlers, value \in HandlerValues :
        LET r == Histogram_observe(hLabels, hBuckets, HistState, Arr(HandlerKey), value)
        IN  /\ HandlerReady(h)
            /\ hCounts' = r.h.counts
            /\ hTotalSum' = r.h.totalSum
            /\ hTotalCount' = r.h.totalCount
            /\ hCalls' = Append(hCalls, [labels |-> HandlerKey, value |-> value.n])
            /\ hand' = [hand EXCEPT ![h].done = @ + 1, ![h].observed = @ + 1,
                                    ![h].observedSum = @ + value.n]
            /\ ret' = Ret("Histogram.observe", r.err, 0, <<>>)
            /\ UNCHANGED <<hArg, hLabels, hBuckets, counterVars, gaugeVars, regVars, encVars>>

\* histogram.toPrometheus() in handler h
HandlerHistogramToPrometheus ==
    \E h \in Handlers :
        /\ HandlerReady(h)
        /\ hand' = [hand EXCEPT ![h].done = @ + 1]
        /\ ret' = Ret("Histogram.toPrometheus", NoError, 0,
                      Histogram_toPrometheus(hName, hHelp, hLabels, hBuckets, HistState))
        /\ UNCHANGED <<counterVars, gaugeVars, histVars, regVars, encVars>>

InitHandlers ==
    /\ NewCounter(<<<<"m">>>>)
    /\ NewGauge(<<<<"m">>>>)
    /\ NewHistogram(<<1, 2>>, <<<<"m">>>>)
    /\ ret = InitRet
    /\ NewRegistry
    /\ NoEncoding
    /\ NoHandlers

NextHandlers ==
    \/ HandlerCounterInc
    \/ HandlerGaugeInc
    \/ HandlerGaugeDec
    \/ HandlerHistogramObserve
    \/ HandlerHistogramToPrometheus

SpecHandlers == InitHandlers /\ [][NextHandlers]_vars

\* n declared label names
DeclaredNames(n) == [i \in 1..n |-> <<"m">>]

\* C14: two label lists have the same key exactly when they are equal element
\* by element and in order, also when the values hold commas, quotes, brackets
\* or backslashes; decoding the key gives the list back; and on a metric,
\* after inc(a) on a new counter, getValue(b) sees the increment exactly when
\* b = a.
C14_KeyEncodingIsInjective ==
    /\ enc.stage \in {"encoded", "decoded"} =>
        /\ enc.key = Stringify(enc.labels)
        /\ \A b \in KeyLists : (Stringify(b) = enc.key) <=> (b = enc.labels)
        /\ LET declared == DeclaredNames(Len(enc.labels))
               after == Counter_inc(declared, <<>>, Arr(enc.labels), Undef).values
           IN  \A b \in {l \in KeyLists : Len(l) = Len(enc.labels)} :
                  Counter_getValue(declared, after, Arr(b)).num
                      = (IF b = enc.labels THEN 1 ELSE 0)
    /\ enc.stage = "decoded" => enc.parsed = enc.labels

\* C14 witness: a list of one value made of a quote, a comma and a quote has
\* been encoded and decoded; written without escapes its key would be that of
\* the list of two empty strings.
C14_Witness ==
    /\ enc.stage = "decoded"
    /\ enc.labels = << <<"\"", ",", "\"">> >>
    /\ enc.key = <<"[", "\"", "\\", "\"", ",", "\\", "\"", "\"", "]">>
    /\ enc.parsed = enc.labels

\* --------------------------------------------------------- Gauge: claims
\* label lists of the declared length
GaugeKeys == {l \in GaugeLists : Len(l) = Len(gLabels)}
\* get(l) in the current state
GaugeValue(l) == Gauge_get(gLabels, gValues, Arr(l))
\* the calls that pass a label list, or omit it (a number only, or nothing)
GaugeLabelCalls ==
    {c \in GaugeCalls : IsArray(c[1]) \/ TypeofNumber(c[1]) \/ IsUndefined(c[1])}
\* an error that reports a label count mismatch
IsLabelCountMismatch(err) ==
    /\ err.cls = "Error"
    /\ err.msg \in {"Label count mismatch", "Label count mismatch, expected ${e} but got ${a}"}

\* C3 as claimed: Gauge.set with a label list whose length is not the
\* declared one (a number alone counting as the empty list) fails with the
\* label-count mismatch and leaves every stored value unchanged.
C3_GaugeSetLabelCountMismatch ==
    \A c \in GaugeLabelCalls :
        (~IsUndefined(c[1]) /\ Len(PassedLabels(c[1])) # Len(gLabels)) =>
            LET r == Gauge_set(gLabels, gValues, c[1], c[2])
            IN  IsLabelCountMismatch(r.err) /\ r.values = gValues

\* C7: get(k) after any sequence of successful set, inc and dec calls equals
\* the left-to-right fold of the calls made on k, starting from 0: set
\* overwrites, inc adds and dec subtracts the delta (1 when omitted), deltas
\* of either sign are accepted and dec with a negative delta raises the value.
C7_GaugeValueIsFold ==
    \A l \in GaugeKeys :
        /\ GaugeValue(l).err = NoError
        /\ GaugeValue(l).num = gFold[l]
        /\ LET r == Gauge_dec(gLabels, gValues, Arr(l), Num(-1))
           IN  /\ r.err = NoError
               /\ Gauge_get(gLabels, r.values, Arr(l)).num = GaugeValue(l).num + 1

\* C7 witness: a set, an inc and a dec with a negative delta have acted on one key.
C7_Witness ==
    /\ ret.op = "Gauge.dec"
    /\ ret.err = NoError
    /\ gOps = 3
    /\ \E l \in GaugeKeys : gFold[l] = 5 /\ GaugeValue(l).num = 5

\* C10: Gauge.inc, Gauge.dec and Gauge.get with a label list whose length is
\* not the declared one (a number alone or nothing counting as the empty
\* list) fail with a label-count mismatch, and the failed inc/dec leaves every
\* stored value unchanged.
C10_GaugeLabelCountMismatch ==
    /\ \A c \in GaugeLabelCalls :
        Len(PassedLabels(c[1])) # Len(gLabels) =>
            LET i == Gauge_inc(gLabels, gValues, c[1], c[2])
                d == Gauge_dec(gLabels, gValues, c[1], c[2])
            IN  /\ IsLabelCountMismatch(i.err) /\ i.values = gValues
                /\ IsLabelCountMismatch(d.err) /\ d.values = gValues
    /\ \A l \in GaugeLists :
        Len(l) # Len(gLabels) => IsLabelCountMismatch(GaugeValue(l).err)
    /\ Len(gLabels) # 0 => IsLabelCountMismatch(Gauge_get(gLabels, gValues, Undef).err)

\* C10 witness: a dec that passed no label list has failed on a labeled gauge that holds a value.
C10_Witness ==
    /\ ret.op = "Gauge.dec"
    /\ ret.err = LabelCountMismatch(1, 0)
    /\ gValues # <<>>

\* the values the finiteness check of inc, dec and set has to reject
GaugeInvalidValues == {NaN, PosInf, StrArg}
\* the calls that pass such a value with a label list of the declared length
\* (labeled shape) or, on an unlabeled gauge, alone (unlabeled shape)
GaugeInvalidCalls ==
    {c \in GaugeCalls :
        \/ IsArray(c[1]) /\ Len(c[1].a) = Len(gLabels) /\ c[2] \in GaugeInvalidValues
        \/ gLabels = <<>> /\ c[1] \in GaugeInvalidValues /\ IsUndefined(c[2])}

\* C13 as claimed: Gauge.inc, Gauge.dec and Gauge.set called with a value that
\* is NaN, infinite or not a number, in the labeled or the unlabeled call
\* shape, fail with a TypeError and leave the stored value of every key
\* unchanged.
C13_GaugeInvalidValueFails ==
    \A c \in GaugeInvalidCalls :
        LET i == Gauge_inc(gLabels, gValues, c[1], c[2])
            d == Gauge_dec(gLabels, gValues, c[1], c[2])
            s == Gauge_set(gLabels, gValues, c[1], c[2])
        IN  /\ i.err.cls = "TypeError" /\ i.values = gValues
            /\ d.err.cls = "TypeError" /\ d.values = gValues
            /\ s.err.cls = "TypeError" /\ s.values = gValues

\* ----------------------------------------------------- Histogram: claims
\* label lists of the declared length
HistKeys == {l \in HistLists : Len(l) = Len(hLabels)}

RECURSIVE CountObserved(_, _, _)
\* how many recorded observations for label list l have a value <= bound
CountObserved(calls, l, bound) ==
    IF calls = <<>> THEN 0
    ELSE (IF Head(calls).labels = l /\ Head(calls).value <= bound THEN 1 ELSE 0)
         + CountObserved(Tail(calls), l, bound)

RECURSIVE SumObserved(_, _)
SumObserved(calls, l) ==
    IF calls = <<>> THEN 0
    ELSE (IF Head(calls).labels = l THEN Head(calls).value ELSE 0)
         + SumObserved(Tail(calls), l)

\* the observations recorded for label list l
ObservedFor(l) == {i \in 1..Len(hCalls) : hCalls[i].labels = l}

\* the positions of the newlines of a text
Newlines(text) == {i \in 1..Len(text) : text[i] = "\n"}

\* the lines of a text whose every line ends in a newline, without the newlines
SplitLines(text) ==
    LET ends == Newlines(text)
        \* the n-th newline
        EndOf(n) == CHOOSE i \in ends : Cardinality({j \in ends : j < i}) = n - 1
    IN  [n \in 1..Cardinality(ends) |->
            SubSeq(text, IF n = 1 THEN 1 ELSE EndOf(n - 1) + 1, EndOf(n) - 1)]

\* the text after the last space of a line
LastField(line) ==
    LET spaces == {i \in 1..Len(line) : line[i] = " "}
        last == IF spaces = {} THEN 0
                ELSE CHOOSE i \in spaces : \A j \in spaces : j <= i
    IN  SubSeq(line, last + 1, Len(line))

DigitValue(c) == CHOOSE d \in 0..9 : Digits[d + 1] = c

RECURSIVE ReadNat(_)
\* the number a string of decimal digits denotes
ReadNat(t) ==
    IF t = <<>> THEN 0
    ELSE 10 * ReadNat(SubSeq(t, 1, Len(t) - 1)) + DigitValue(t[Len(t)])

\* the sample value at the end of a line of an exposition
SampleValue(line) == ReadNat(LastField(line))

\* the lines of the histogram's exposition
HistLines ==
    SplitLines(Histogram_toPrometheus(hName, hHelp, hLabels, hBuckets, HistState))

\* the line of the b-th bucket of the k-th stored key: two header lines, then
\* per key one line per bound, the +Inf line, the _sum line and the _count line
BucketLineOf(k, b) == HistLines[2 + (k - 1) * (Len(hBuckets) + 3) + b]

\* C2 as claimed: for any bucket list (any order, duplicates allowed) and
\* every key, the count held and the count rendered for each bound b equal
\* the number of values observed for that key that are <= b.
C2_BucketCountsAreCumulative ==
    \A k \in 1..Len(hCounts) : \A b \in 1..Len(hBuckets) :
        LET l == Parse(hCounts[k].k)
            expected == CountObserved(hCalls, l, hBuckets[b])
        IN  /\ MapGetOr0(hCounts[k].v, hBuckets[b]) = expected
            /\ SampleValue(BucketLineOf(k, b)) = expected

\* C8: for every key, get(k).totalCount is the number of observations made
\* for k and get(k).totalSum the sum of the observed values; both are 0 for a
\* key never observed.
C8_HistogramTotals ==
    \A l \in HistKeys :
        LET r == Histogram_get(hLabels, HistState, Arr(l))
        IN  /\ r.err = NoError
            /\ r.totalCount = Cardinality(ObservedFor(l))
            /\ r.totalSum = SumObserved(hCalls, l)

\* C8 witness: three observations, two of them on one key, and get has
\* returned that key's totals.
C8_Witness ==
    /\ ret.op = "Histogram.get"
    /\ Len(hCalls) = 3
    /\ \E l \in HistKeys :
        /\ Cardinality(ObservedFor(l)) = 2
        /\ ret.num = 2
        /\ ret.sum = 5
        /\ SumObserved(hCalls, l) = 5

\* the observe calls that pass a number alone or a label list first
HistLabelCalls == {c \in HistCalls : IsArray(c[1]) \/ TypeofNumber(c[1])}
\* the value such a call passes
HistPassedValue(arg1, arg2) == IF IsArray(arg1) THEN arg2 ELSE arg1
\* observe(arg1, arg2) applied to the current state
ObserveNow(c) == Histogram_observe(hLabels, hBuckets, HistState, c[1], c[2])

\* C11 as claimed: the label count is checked first, so every observe call
\* whose label list has not the declared length fails with the label-count
\* mismatch, whatever value it passes.
C11_Original ==
    \A c \in HistLabelCalls :
        Len(PassedLabels(c[1])) # Len(hLabels) =>
            ObserveNow(c).err = LabelCountMismatch(Len(hLabels), Len(PassedLabels(c[1])))

\* C11: an observe call fails when its label list has not the declared
\* length or its value is NaN, infinite or not a number; a value that is not
\* a number passed after a label list is rejected first ('Value must be a
\* number'), then the label count is checked, then finiteness.  A failed call
\* leaves the bucket counts, totalSum and totalCount of every key unchanged
\* and creates no entry for the key it named, so get returns what it
\* returned before.
C11_FailedObserveChangesNothing ==
    \A c \in HistLabelCalls :
        LET r == ObserveNow(c)
            labels == PassedLabels(c[1])
            value == HistPassedValue(c[1], c[2])
        IN  /\ r.err # NoError <=>
                (Len(labels) # Len(hLabels) \/ NotFiniteNumber(value))
            /\ r.err # NoError =>
                /\ r.err = IF IsArray(c[1]) /\ ~TypeofNumber(value) THEN ValueMustBeNumber
                           ELSE IF Len(labels) # Len(hLabels)
                           THEN LabelCountMismatch(Len(hLabels), Len(labels))
                           ELSE ValueNotFinite
                /\ r.h = HistState
                /\ MapHas(r.h.counts, Stringify(labels)) = MapHas(hCounts, Stringify(labels))
                /\ \A l \in HistLists :
                    Histogram_get(hLabels, r.h, Arr(l)) = Histogram_get(hLabels, HistState, Arr(l))

\* C11 witness: an observe of a non-finite value has failed on a labeled
\* histogram that holds one key, and the other key has no entry.
C11_Witness ==
    /\ ret.op = "Histogram.observe"
    /\ ret.err = ValueNotFinite
    /\ hLabels # <<>>
    /\ Len(hCounts) = 1
    /\ \E l \in HistKeys : ~MapHas(hCounts, Stringify(l))

\* whether `sub` occurs in `line`
HasSub(line, sub) ==
    \E i \in 1..(Len(line) - Len(sub) + 1) : SubSeq(line, i, i + Len(sub) - 1) = sub

InfLabel == <<"l", "e", "=", "\"", "+", "I", "n", "f", "\"", "}">>
\* C26: in every render, the lines of each key are its explicit bucket lines,
\* then the le="+Inf" bucket line, then _sum and _count; the +Inf line carries
\* the key's totalCount, which is also the value of the _count line.
C26_InfBucketIsTotalCount ==
    LET lines == HistLines
        nb == Len(hBuckets)
        bucketStart == hName \o <<"_", "b", "u", "c", "k", "e", "t", "{">>
    IN  /\ Len(lines) = 2 + Len(hCounts) * (nb + 3)
        /\ \A k \in 1..Len(hCounts) :
            LET first == 2 + (k - 1) * (nb + 3)
                total == Histogram_get(hLabels, HistState, Arr(Parse(hCounts[k].k))).totalCount
            IN  /\ \A b \in 1..nb :
                    /\ HasSub(lines[first + b], bucketStart)
                    /\ ~HasSub(lines[first + b], InfLabel)
                /\ HasSub(lines[first + nb + 1], bucketStart)
                /\ HasSub(lines[first + nb + 1], InfLabel)
                /\ ~HasSub(lines[first + nb + 2], InfLabel)
                /\ ~HasSub(lines[first + nb + 3], InfLabel)
                /\ HasSub(lines[first + nb + 3], hName \o <<"_", "c", "o", "u", "n", "t">>)
                /\ total = Cardinality(ObservedFor(Parse(hCounts[k].k)))
                /\ SampleValue(lines[first + nb + 1]) = total
                /\ SampleValue(lines[first + nb + 3]) = total

\* C26 witness: toPrometheus has rendered a histogram with two bounds that
\* holds two keys, one of them observed twice.
C26_Witness ==
    /\ ret.op = "Histogram.toPrometheus"
    /\ Len(hBuckets) = 2
    /\ Len(hCounts) = 2
    /\ Len(hCalls) = 3
    /\ ret.out = Histogram_toPrometheus(hName, hHelp, hLabels, hBuckets, HistState)

\* -------------------------------------------------- all metrics: claims
\* C4 as claimed: in every reachable state of every metric, each key of the
\* per-key state map decodes to a label list of the declared length.
C4_KeysHaveDeclaredLength ==
    /\ \A i \in 1..Len(cValues) : Len(Parse(cValues[i].k)) = Len(cLabels)
    /\ \A i \in 1..Len(gValues) : Len(Parse(gValues[i].k)) = Len(gLabels)
    /\ \A i \in 1..Len(hCounts) : Len(Parse(hCounts[i].k)) = Len(hLabels)

\* ------------------------------------------- metrics side by side: claims
\* the two header lines of an exposition and nothing else
OnlyHelpAndType(text) ==
    /\ Cardinality(Newlines(text)) = 2
    /\ text[Len(text)] = "\n"
    /\ SubSeq(SplitLines(text)[1], 1, 7) = <<"#", " ", "H", "E", "L", "P", " ">>
    /\ SubSeq(SplitLines(text)[2], 1, 7) = <<"#", " ", "T", "Y", "P", "E", " ">>

\* C15: getValue / get on any label list leaves every map as it is and
\* creates no entry, and returns 0 (totalCount 0 and totalSum 0) for a key
\* without entry; toPrometheus after the read is the string it was before.
C15_ReadsArePure ==
    /\ \A arg \in {Undef} \cup {Arr(l) : l \in LabelLists} :
        LET c == Counter_getValue(cLabels, cValues, arg)
            g == Gauge_get(gLabels, gValues, arg)
            h == Histogram_get(hLabels, HistState, arg)
            key == Stringify(IF IsUndefined(arg) THEN <<>> ELSE arg.a)
        IN  /\ c.values = cValues
            /\ (c.err = NoError /\ ~MapHas(cValues, key)) => c.num = 0
            /\ Counter_toPrometheus(cName, cHelp, cLabels, c.values)
                = Counter_toPrometheus(cName, cHelp, cLabels, cValues)
            /\ g.values = gValues
            /\ (g.err = NoError /\ ~MapHas(gValues, key)) => g.num = 0
            /\ Gauge_toPrometheus(gName, gHelp, gLabels, g.values)
                = Gauge_toPrometheus(gName, gHelp, gLabels, gValues)
            /\ h.h = HistState
            /\ (h.err = NoError /\ ~MapHas(hCounts, key)) =>
                    (h.totalCount = 0 /\ h.totalSum = 0)
            /\ Histogram_toPrometheus(hName, hHelp, hLabels, hBuckets, h.h)
                = Histogram_toPrometheus(hName, hHelp, hLabels, hBuckets, HistState)
    /\ ret.op = "Counter.toPrometheus" =>
            ret.out = Counter_toPrometheus(cName, cHelp, cLabels, cValues)
    /\ ret.op = "Gauge.toPrometheus" =>
            ret.out = Gauge_toPrometheus(gName, gHelp, gLabels, gValues)
    /\ ret.op = "Histogram.toPrometheus" =>
            ret.out = Histogram_toPrometheus(hName, hHelp, hLabels, hBuckets, HistState)

\* C15 witness: getValue has returned 0 for a key never incremented on a
\* labeled counter that holds exactly one other key, while the gauge and the
\* histogram hold values too.
C15_Witness ==
    /\ ret.op = "Counter.getValue"
    /\ ret.err = NoError
    /\ ret.num = 0
    /\ cLabels # <<>>
    /\ Len(cValues) = 1
    /\ gValues # <<>>
    /\ hCounts # <<>>

\* C16: reset() of a Counter, Gauge or Histogram removes every entry: on the
\* maps it leaves, getValue / get returns 0 (totalCount 0 and totalSum 0) for
\* every key that held an entry and for every list of the declared length,
\* and toPrometheus is the HELP line and the TYPE line only; the maps found
\* after a reset call are those maps.
C16_ResetClearsEveryKey ==
    LET c == Counter_reset(cValues)
        g == Gauge_reset(gValues)
        h == Histogram_reset(HistState)
    IN  /\ \A l \in {Parse(cValues[i].k) : i \in 1..Len(cValues)}
                    \cup {l \in LabelLists : Len(l) = Len(cLabels)} :
            /\ ~MapHas(c, Stringify(l))
            /\ Len(l) = Len(cLabels) => Counter_getValue(cLabels, c, Arr(l)).num = 0
        /\ OnlyHelpAndType(Counter_toPrometheus(cName, cHelp, cLabels, c))
        /\ \A l \in {Parse(gValues[i].k) : i \in 1..Len(gValues)}
                    \cup {l \in LabelLists : Len(l) = Len(gLabels)} :
            /\ ~MapHas(g, Stringify(l))
            /\ Len(l) = Len(gLabels) => Gauge_get(gLabels, g, Arr(l)).num = 0
        /\ OnlyHelpAndType(Gauge_toPrometheus(gName, gHelp, gLabels, g))
        /\ \A l \in {Parse(hCounts[i].k) : i \in 1..Len(hCounts)}
                    \cup {l \in LabelLists : Len(l) = Len(hLabels)} :
            /\ ~MapHas(h.counts, Stringify(l))
            /\ ~MapHas(h.totalSum, Stringify(l))
            /\ ~MapHas(h.totalCount, Stringify(l))
            /\ Len(l) = Len(hLabels) =>
                LET r == Histogram_get(hLabels, h, Arr(l))
                IN  r.totalCount = 0 /\ r.totalSum = 0
        /\ OnlyHelpAndType(Histogram_toPrometheus(hName, hHelp, hLabels, hBuckets, h))
        /\ ret.op = "Counter.reset" => cValues = c
        /\ ret.op = "Gauge.reset" => gValues = g
        /\ ret.op = "Histogram.reset" => HistState = h

\* C16 witness: reset has been called on a counter that held two keys, and
\* the counter holds none.
C16_Witness ==
    /\ ret.op = "Counter.reset"
    /\ ret.num = 2
    /\ cValues = <<>>

\* every entry of `before` and of `after` under another key than `key` is in
\* both maps, at the same place and with the same value
OthersKept(before, after, key) ==
    /\ \A i \in 1..Len(before) :
        before[i].k # key => (i <= Len(after) /\ after[i] = before[i])
    /\ \A i \in 1..Len(after) :
        after[i].k # key => (i <= Len(before) /\ after[i] = before[i])

\* the keys whose entry differs between two maps
ChangedKeys(before, after) ==
    {k \in MapKeys(before) \cup MapKeys(after) :
        \/ MapHas(before, k) # MapHas(after, k)
        \/ MapHas(before, k) /\ before[MapIndex(before, k, 1)].v # after[MapIndex(after, k, 1)].v}

\* the key a successful step has appended to a call log, if any
NamedKeys(log, logAfter) ==
    IF logAfter = log THEN {} ELSE {Stringify(logAfter[Len(logAfter)].labels)}

\* C17: a Counter.inc, Gauge.set/inc/dec or Histogram.observe step changes
\* the entry of the key it names at most (none when it fails): the entry of
\* every other key of the metric keeps its place and its value, no other
\* entry appears, and the maps of the other two metric instances are as
\* before.
C17_MutationTouchesOneKey ==
    [][ /\ ret'.op = "Counter.inc" =>
            /\ ChangedKeys(cValues, cValues') \subseteq NamedKeys(cCalls, cCalls')
            /\ \A k \in NamedKeys(cCalls, cCalls') : OthersKept(cValues, cValues', k)
            /\ <<gLabels, gValues, hLabels, hBuckets, hCounts, hTotalSum, hTotalCount>>'
                = <<gLabels, gValues, hLabels, hBuckets, hCounts, hTotalSum, hTotalCount>>
        /\ ret'.op \in {"Gauge.inc", "Gauge.dec", "Gauge.set"} =>
            /\ ret'.err # NoError => gValues' = gValues
            /\ \E l \in GaugeLists : gFold' = [gFold EXCEPT ![l] = gFold'[l]]
                                     /\ ChangedKeys(gValues, gValues') \subseteq {Stringify(l)}
                                     /\ OthersKept(gValues, gValues', Stringify(l))
            /\ <<cLabels, cValues, hLabels, hBuckets, hCounts, hTotalSum, hTotalCount>>'
                = <<cLabels, cValues, hLabels, hBuckets, hCounts, hTotalSum, hTotalCount>>
        /\ ret'.op = "Histogram.observe" =>
            /\ ChangedKeys(hCounts, hCounts') \subseteq NamedKeys(hCalls, hCalls')
            /\ ChangedKeys(hTotalSum, hTotalSum') \subseteq NamedKeys(hCalls, hCalls')
            /\ ChangedKeys(hTotalCount, hTotalCount') \subseteq NamedKeys(hCalls, hCalls')
            /\ \A k \in NamedKeys(hCalls, hCalls') :
                /\ OthersKept(hCounts, hCounts', k)
                /\ OthersKept(hTotalSum, hTotalSum', k)
                /\ OthersKept(hTotalCount, hTotalCount', k)
            /\ <<cLabels, cValues, gLabels, gValues>>' = <<cLabels, cValues, gLabels, gValues>>
      ]_vars

\* C17 witness: a set has succeeded on a gauge that now holds two keys, next
\* to a counter that holds a value.
C17_Witness ==
    /\ ret.op = "Gauge.set"
    /\ ret.err = NoError
    /\ Len(gValues) = 2
    /\ cValues # <<>>

\* ------------------------------------------------------- Registry: claims
\* C18: register under a name that is present fails with an error and leaves
\* the registry as it is, so getMetric(name) returns the metric registered
\* first; after unregister(name), register(name, m) succeeds and
\* getMetric(name) returns m.
C18_DuplicateRegisterFails ==
    /\ \A name \in RegistryNames, metric \in Metrics :
        LET r == Registry_register(rMetrics, name, metric)
            u == Registry_unregister(rMetrics, name)
            again == Registry_register(u.metrics, name, metric)
        IN  /\ MapHas(rMetrics, name) =>
                /\ r.err = AlreadyRegistered
                /\ r.metrics = rMetrics
                /\ Registry_getMetric(r.metrics, name) = Registry_getMetric(rMetrics, name)
            /\ again.err = NoError
            /\ Registry_getMetric(again.metrics, name) = metric
    /\ ret.op = "Registry.register" =>
        /\ ret.err \in {NoError, AlreadyRegistered}
        /\ MapHas(rMetrics, ret.name)
        /\ ret.err = NoError => Registry_getMetric(rMetrics, ret.name) = ret.val

\* C18 witness: registering a second metric under a name in use has failed,
\* and getMetric of that name is the first metric, not the second.
C18_Witness ==
    /\ ret.op = "Registry.register"
    /\ ret.err = AlreadyRegistered
    /\ Registry_getMetric(rMetrics, ret.name) \in Metrics \ {ret.val}

\* C19: unregister(name) never fails; it returns true and removes that entry
\* when the name is registered, returns false and leaves the registry as it
\* is when it is not; every other entry and the state of every metric are
\* unchanged.
C19_UnregisterNeverFails ==
    [][ ret'.op = "Registry.unregister" =>
            /\ ret'.err = NoError
            /\ ret'.val = (IF MapHas(rMetrics, ret'.name) THEN "true" ELSE "false")
            /\ ~MapHas(rMetrics', ret'.name)
            /\ rMetrics' = SelectSeq(rMetrics, LAMBDA e : e.k # ret'.name)
            /\ ~MapHas(rMetrics, ret'.name) => rMetrics' = rMetrics
            /\ \A n \in RegistryNames \ {ret'.name} :
                Registry_getMetric(rMetrics', n) = Registry_getMetric(rMetrics, n)
            /\ <<counterVars, gaugeVars, histVars>>' = <<counterVars, gaugeVars, histVars>>
      ]_vars

\* C19 witness: unregister has returned true, another name is still
\* registered, and the counter still holds its values.
C19_Witness ==
    /\ ret.op = "Registry.unregister"
    /\ ret.val = "true"
    /\ Len(rMetrics) >= 1
    /\ cValues # <<>>

\* the texts of the metrics registered under `names`, one after the other
TextsOf(names) ==
    Flatten([i \in 1..Len(names) |->
                Metric_toPrometheus(Registry_getMetric(rMetrics, names[i]))])

\* C20: after any sequence of register, unregister and clear calls,
\* getMetricNames() is the list of the registered names in the order of
\* their latest registration, and metrics() is the concatenation, in that
\* order and with nothing in between, of each registered metric's
\* toPrometheus().
C20_RegistrationOrder ==
    /\ Registry_getMetricNames(rMetrics) = rOrder
    /\ Registry_metrics(rMetrics) = TextsOf(rOrder)
    /\ ret.op = "Registry.getMetricNames" => ret.names = rOrder
    /\ ret.op = "Registry.metrics" => ret.out = TextsOf(rOrder)

\* C20 witness: metrics() has been called with three names registered, the
\* gauge before the counter, and both hold a value.
C20_Witness ==
    /\ ret.op = "Registry.metrics"
    /\ Len(rOrder) = 3
    /\ Registry_getMetric(rMetrics, rOrder[1]) = "gauge"
    /\ Registry_getMetric(rMetrics, rOrder[2]) = "counter"
    /\ cValues # <<>>
    /\ gValues # <<>>
    /\ ret.out = Gauge_toPrometheus(gName, gHelp, gLabels, gValues)
                 \o Counter_toPrometheus(cName, cHelp, cLabels, cValues)
                 \o Metric_toPrometheus(Registry_getMetric(rMetrics, rOrder[3]))

\* ------------------------------------------- the exposition format: claims
RECURSIVE LabelPairs(_, _, _)
\* name1="v1", name2="v2", ... from the i-th pair on
LabelPairs(declared, labelValues, i) ==
    IF i > Len(declared) THEN <<>>
    ELSE declared[i] \o <<"=", "\"">> \o labelValues[i] \o <<"\"">>
         \o (IF i < Len(declared) THEN <<",", " ">> ELSE <<>>)
         \o LabelPairs(declared, labelValues, i + 1)

\* the line N{name1="v1", name2="v2"} <value>, or N <value> without labels,
\* without its newline
SeriesLine(name, declared, labelValues, value) ==
    name
    \o (IF declared = <<>> THEN <<>>
        ELSE <<"{">> \o LabelPairs(declared, labelValues, 1) \o <<"}">>)
    \o <<" ">> \o NumToStr(value)

\* C27 as claimed: Gauge.toPrometheus renders each stored key of the declared
\* length as N{label1="v1", label2="v2"} <value>, or N <value> for a gauge
\* without labels, one line per key after the two header lines, with nothing
\* between the name and the opening brace.
C27_GaugeLineFormat ==
    LET text == Gauge_toPrometheus(gName, gHelp, gLabels, gValues)
        lines == SplitLines(text)
    IN  /\ Len(lines) = 2 + Len(gValues)
        /\ text[Len(text)] = "\n"
        /\ \A i \in 1..Len(gValues) :
            Len(Parse(gValues[i].k)) = Len(gLabels) =>
                lines[2 + i] = SeriesLine(gName, gLabels, Parse(gValues[i].k), gValues[i].v)

RECURSIVE FirstSeen(_, _)
\* the label lists of a call log in the order of their first call
FirstSeen(calls, seen) ==
    IF calls = <<>> THEN seen
    ELSE FirstSeen(Tail(calls),
                   IF \E i \in 1..Len(seen) : seen[i] = Head(calls).labels THEN seen
                   ELSE Append(seen, Head(calls).labels))

\* C28: after the two header lines Counter.toPrometheus renders one line per
\* key in the order in which the keys were first incremented since the last
\* reset: N{label1="v1", label2="v2"} <value> with the declared names paired
\* positionally with the key's values, N <value> without labels; a further
\* inc on a key changes its value and not its place.
C28_CounterLinesInFirstIncOrder ==
    LET text == Counter_toPrometheus(cName, cHelp, cLabels, cValues)
        lines == SplitLines(text)
        order == FirstSeen(cCalls, <<>>)
    IN  /\ Len(lines) = 2 + Len(order)
        /\ text[Len(text)] = "\n"
        /\ \A i \in 1..Len(order) :
            lines[2 + i] = SeriesLine(cName, cLabels, order[i], SumFor(cCalls, order[i]))
        /\ ret.op = "Counter.toPrometheus" => ret.out = text

\* C28 witness: toPrometheus has rendered a two-label counter on which a
\* first key was incremented, then a second, then the first again.
C28_Witness ==
    /\ ret.op = "Counter.toPrometheus"
    /\ Len(cLabels) = 2
    /\ Len(cCalls) = 3
    /\ Len(cValues) = 2
    /\ cCalls[3].labels = cCalls[1].labels
    /\ cCalls[3].amount > 0

\* the header lines as the exposition format writes them
HelpLine(name, help) == <<"#", " ", "H", "E", "L", "P", " ">> \o name \o <<" ">> \o help
TypeLine(name, kind) == <<"#", " ", "T", "Y", "P", "E", " ">> \o name \o <<" ">> \o kind

\* C29: the render of every metric kind begins with exactly the line
\* '# HELP <name> <help>' followed by exactly the line '# TYPE <name> <kind>',
\* each ended by one newline and holding no other character such as a
\* trailing space.
C29_HeaderLinesExact ==
    LET c == SplitLines(Counter_toPrometheus(cName, cHelp, cLabels, cValues))
        g == SplitLines(Gauge_toPrometheus(gName, gHelp, gLabels, gValues))
        h == SplitLines(Histogram_toPrometheus(hName, hHelp, hLabels, hBuckets, HistState))
    IN  /\ c[1] = HelpLine(cName, cHelp)
        /\ c[2] = TypeLine(cName, <<"c", "o", "u", "n", "t", "e", "r">>)
        /\ g[1] = HelpLine(gName, gHelp)
        /\ g[2] = TypeLine(gName, <<"g", "a", "u", "g", "e">>)
        /\ h[1] = HelpLine(hName, hHelp)
        /\ h[2] = TypeLine(hName, <<"h", "i", "s", "t", "o", "g", "r", "a", "m">>)

\* the part of C29 the Histogram render meets
C29_HistogramHeaderExact ==
    LET h == SplitLines(Histogram_toPrometheus(hName, hHelp, hLabels, hBuckets, HistState))
    IN  /\ h[1] = HelpLine(hName, hHelp)
        /\ h[2] = TypeLine(hName, <<"h", "i", "s", "t", "o", "g", "r", "a", "m">>)

\* C30: every label-count-mismatch error a metric operation raises carries
\* the expected number of labels and the number actually supplied.
C30_MismatchCarriesCounts ==
    IsLabelCountMismatch(ret.err) =>
        /\ ret.err.expected = Len(gLabels)
        /\ ret.err.actual >= 0
        /\ ret.err.actual # ret.err.expected

\* the part of C30 that inc, dec and set meet
C30_MutationMismatchCarriesCounts ==
    (IsLabelCountMismatch(ret.err) /\ ret.op # "Gauge.get") =>
        /\ ret.err.expected = Len(gLabels)
        /\ ret.err.actual >= 0
        /\ ret.err.actual # ret.err.expected

\* some name of the registry maps to this instance
HasEntryFor(metric) == \E name \in RegistryNames : Registry_getMetric(rMetrics, name) = metric

\* C22: resetAll() resets every metric registered at the time, so each
\* returns the unseen-key default for every key, and changes nothing else:
\* the names and their order stay, and a metric not in the registry keeps
\* its state.
C22_ResetAllFrame ==
    [][ret'.op = "Registry.resetAll" =>
        /\ rMetrics' = rMetrics
        /\ Registry_getMetricNames(rMetrics') = Registry_getMetricNames(rMetrics)
        /\ IF HasEntryFor("counter")
           THEN /\ cValues' = <<>>
                /\ \A l \in CounterKeys : Counter_getValue(cLabels, cValues', Arr(l)).num = 0
           ELSE cValues' = cValues
        /\ IF HasEntryFor("gauge")
           THEN /\ gValues' = <<>>
                /\ \A l \in GaugeKeys : Gauge_get(gLabels, gValues', Arr(l)).num = 0
           ELSE gValues' = gValues
        /\ IF HasEntryFor("histogram")
           THEN /\ hCounts' = <<>> /\ hTotalSum' = <<>> /\ hTotalCount' = <<>>
                /\ \A l \in HistKeys :
                    LET r == Histogram_get(hLabels,
                                 [counts |-> hCounts', totalSum |-> hTotalSum',
                                  totalCount |-> hTotalCount'], Arr(l))
                    IN  r.totalCount = 0 /\ r.totalSum = 0
           ELSE hCounts' = hCounts /\ hTotalSum' = hTotalSum /\ hTotalCount' = hTotalCount
        /\ UNCHANGED <<cLabels, gLabels, hLabels, hBuckets>>]_vars

\* C22 witness: resetAll() has emptied a registered metric that held a key
\* while a metric outside the registry still holds its key and a name is
\* still registered.
C22_Witness ==
    /\ ret.op = "Registry.resetAll"
    /\ ret.num > 0
    /\ rMetrics # <<>>
    /\ \E metric \in Metrics : ~HasEntryFor(metric)
    /\ \/ ~HasEntryFor("counter") /\ cValues # <<>>
       \/ ~HasEntryFor("gauge") /\ gValues # <<>>
       \/ ~HasEntryFor("histogram") /\ hCounts # <<>>

\* C23: clear() removes every entry, so getMetricNames() is empty, metrics()
\* is the empty string and every name can be registered again, and resets no
\* metric: each keeps all its per-key values.
C23_ClearKeepsMetricState ==
    [][ret'.op = "Registry.clear" =>
        /\ rMetrics' = <<>>
        /\ Registry_getMetricNames(rMetrics') = <<>>
        /\ Registry_metrics(rMetrics') = <<>>
        /\ \A name \in RegistryNames, metric \in Metrics :
            LET r == Registry_register(rMetrics', name, metric)
            IN  r.err = NoError /\ Registry_getMetric(r.metrics, name) = metric
        /\ UNCHANGED <<counterVars, gaugeVars, histVars>>]_vars

\* C23 witness: clear() has removed two entries, one of them a counter that
\* still holds its key.
C23_Witness ==
    /\ ret.op = "Registry.clear"
    /\ ret.num >= 2
    /\ rMetrics = <<>>
    /\ cValues # <<>>
    /\ gValues # <<>>

\* the number of label combinations of an instance that a successful call
\* has touched since its last reset (the gauge of this registry is only set
\* to values other than 0)
Touched(metric) ==
    IF metric = "counter" THEN Len(FirstSeen(cCalls, <<>>))
    ELSE IF metric = "gauge" THEN Cardinality({l \in DOMAIN gFold : gFold[l] # 0})
    ELSE Cardinality({hCalls[i].labels : i \in 1..Len(hCalls)})

\* the lines one label combination of an instance takes: a histogram writes
\* a line per bucket bound and the +Inf, _sum and _count lines
LinesPerKey(metric) == IF metric = "histogram" THEN Len(hBuckets) + 3 ELSE 1

RECURSIVE TouchedFrom(_), SeriesLinesFrom(_)
\* the touched label combinations of the entries i.. of the registry
TouchedFrom(i) ==
    IF i > Len(rMetrics) THEN 0 ELSE Touched(rMetrics[i].v) + TouchedFrom(i + 1)
\* the lines their label combinations take
SeriesLinesFrom(i) ==
    IF i > Len(rMetrics) THEN 0
    ELSE Touched(rMetrics[i].v) * LinesPerKey(rMetrics[i].v) + SeriesLinesFrom(i + 1)

\* the positions of the lines of a render that start with a 7-character prefix
LinesWith(lines, prefix) == {i \in 1..Len(lines) : SubSeq(lines[i], 1, 7) = prefix}

\* every entry of the registry contributes one HELP line directly followed
\* by one TYPE line
HeaderPairs(lines) ==
    LET help == LinesWith(lines, <<"#", " ", "H", "E", "L", "P", " ">>)
        type == LinesWith(lines, <<"#", " ", "T", "Y", "P", "E", " ">>)
    IN  /\ Cardinality(help) = Len(rMetrics)
        /\ Cardinality(type) = Len(rMetrics)
        /\ \A i \in help : i + 1 \in type

\* C21 as claimed: metrics() holds one HELP/TYPE pair per registered metric
\* and exactly one data line per label combination touched since the
\* metric's last reset, for Counters, Gauges and Histograms alike.
C21_Original ==
    LET lines == SplitLines(Registry_metrics(rMetrics))
    IN  /\ HeaderPairs(lines)
        /\ Len(lines) - 2 * Len(rMetrics) = TouchedFrom(1)

\* C21: metrics() holds one HELP/TYPE pair per registry entry and, per label
\* combination touched since the metric's last reset, one data line for a
\* Counter or a Gauge and, for a Histogram, one line per bucket bound plus
\* the +Inf, _sum and _count lines.
C21_LinesPerTouchedKey ==
    LET text == Registry_metrics(rMetrics)
        lines == SplitLines(text)
    IN  /\ HeaderPairs(lines)
        /\ Len(lines) - 2 * Len(rMetrics) = SeriesLinesFrom(1)
        /\ text # <<>> => text[Len(text)] = "\n"
        /\ ret.op = "Registry.metrics" => ret.out = text

\* C21 witness: metrics() has rendered a registry that holds a counter with
\* two touched keys, a gauge and a histogram with one touched key each.
C21_Witness ==
    /\ ret.op = "Registry.metrics"
    /\ Len(rMetrics) = 3
    /\ \A metric \in Metrics : HasEntryFor(metric)
    /\ Len(cValues) = 2
    /\ gValues # <<>>
    /\ hCounts # <<>>

RECURSIVE SumHandlers(_, _)
\* what the completed calls of a set of handlers passed in all
SumHandlers(S, field) ==
    IF S = {} THEN 0
    ELSE LET h == CHOOSE x \in S : TRUE
         IN  hand[h][field] + SumHandlers(S \ {h}, field)

\* C24: no update is lost under concurrent use: in any interleaving of the
\* calls of several request handlers on one key, each call one synchronous
\* step, getValue of the Counter equals the sum of the amounts of all inc
\* calls made, the Gauge holds the sum of its inc amounts less its dec
\* amounts, and the Histogram counts and sums every observation.
C24_NoLostUpdate ==
    LET h == Histogram_get(hLabels, HistState, Arr(HandlerKey))
    IN  /\ Counter_getValue(cLabels, cValues, Arr(HandlerKey)).num
               = SumHandlers(Handlers, "counter")
        /\ Gauge_get(gLabels, gValues, Arr(HandlerKey)).num = SumHandlers(Handlers, "gauge")
        /\ h.totalCount = SumHandlers(Handlers, "observed")
        /\ h.totalSum = SumHandlers(Handlers, "observedSum")

\* C24 witness: every handler has made all its calls, each has incremented
\* the counter, and the gauge or the histogram was updated in between.
C24_Witness ==
    /\ \A h \in Handlers : hand[h].done = MaxHandlerCalls /\ hand[h].counter > 0
    /\ \E h \in Handlers : hand[h].gauge # 0 \/ hand[h].observed > 0

\* C25: Histogram.toPrometheus sees a consistent snapshot: in any
\* interleaving of observe and toPrometheus calls of concurrent handlers the
\* bucket counts, the sum and the count rendered for the key all belong to
\* the observations completed before the render, never to a part of one.
C25_RenderIsSnapshot ==
    ret.op = "Histogram.toPrometheus" =>
        LET lines == SplitLines(ret.out)
            nb == Len(hBuckets)
            n == SumHandlers(Handlers, "observed")
        IN  /\ Len(hCalls) = n
            /\ Len(lines) = IF n = 0 THEN 2 ELSE 2 + nb + 3
            /\ n > 0 =>
                /\ \A b \in 1..nb :
                    SampleValue(lines[2 + b]) = CountObserved(hCalls, HandlerKey, hBuckets[b])
                /\ SampleValue(lines[2 + nb + 1]) = n
                /\ SampleValue(lines[2 + nb + 2]) = SumObserved(hCalls, HandlerKey)
                /\ SampleValue(lines[2 + nb + 2]) = SumHandlers(Handlers, "observedSum")
                /\ SampleValue(lines[2 + nb + 3]) = n

\* C25 witness: a handler has rendered the histogram after observations of
\* both handlers.
C25_Witness ==
    /\ ret.op = "Histogram.toPrometheus"
    /\ \A h \in Handlers : hand[h].observed > 0

\* the calls that empty a metric
ResetOps == {"Counter.reset", "Gauge.reset", "Histogram.reset", "Registry.resetAll"}

\* C31: between two reset() calls the set of label keys a metric holds only
\* grows: a key is added exactly when a mutation on a key not seen before
\* succeeds, and no operation other than reset removes a key.
C31_KeysOnlyGrow ==
    [][ret'.op \notin ResetOps =>
        /\ MapKeys(cValues') =
               MapKeys(cValues) \cup (IF ret'.op = "Counter.inc" /\ ret'.err = NoError
                                      THEN NamedKeys(cCalls, cCalls') ELSE {})
        /\ ret'.op = "Counter.inc" /\ ret'.err = NoError => cCalls' # cCalls
        /\ IF ret'.op \in {"Gauge.inc", "Gauge.dec", "Gauge.set"} /\ ret'.err = NoError
           THEN \E l \in GaugeLists :
                    /\ gFold' = [gFold EXCEPT ![l] = gFold'[l]]
                    /\ MapKeys(gValues') = MapKeys(gValues) \cup {Stringify(l)}
           ELSE MapKeys(gValues') = MapKeys(gValues)
        /\ LET named == IF ret'.op = "Histogram.observe" /\ ret'.err = NoError
                        THEN NamedKeys(hCalls, hCalls') ELSE {}
           IN  /\ MapKeys(hCounts') = MapKeys(hCounts) \cup named
               /\ MapKeys(hTotalSum') = MapKeys(hTotalSum) \cup named
               /\ MapKeys(hTotalCount') = MapKeys(hTotalCount) \cup named
        /\ ret'.op = "Histogram.observe" /\ ret'.err = NoError => hCalls' # hCalls
    ]_vars

\* C31 witness: an observe on a key not seen before has succeeded on a
\* histogram that already held a key, next to a counter that holds a key.
C31_Witness ==
    /\ ret.op = "Histogram.observe"
    /\ ret.err = NoError
    /\ Len(hCounts) = 2
    /\ Len(hCalls) = 2
    /\ cValues # <<>>

\* the count the bucket map of the k-th stored key holds for the b-th bound
BucketCount(k, b) == MapGetOr0(hCounts[k].v, hBuckets[b])

\* C32: for every key, in every reachable state and for any bucket list
\* (duplicate bounds allowed), the bucket counts do not decrease along the
\* ascending list of bounds and no bucket count is above the key's
\* totalCount, the count of the +Inf bucket.
C32_BucketCountsMonotone ==
    \A k \in 1..Len(hCounts) : \A b \in 1..Len(hBuckets) :
        /\ b < Len(hBuckets) => BucketCount(k, b) <= BucketCount(k, b + 1)
        /\ BucketCount(k, b) <= MapGetOr0(hTotalCount, hCounts[k].k)

\* the bounds of the histogram are pairwise distinct
DistinctBounds == \A i, j \in 1..Len(hBuckets) : hBuckets[i] = hBuckets[j] => i = j

\* C32 for a bucket list without duplicate bounds
C32_DistinctBoundsMonotone == DistinctBounds => C32_BucketCountsMonotone

\* how often a bound occurs in a bucket list
Occurrences(bs, x) == Cardinality({i \in 1..Len(bs) : bs[i] = x})

\* the le label of a bound
LeLabel(bound) == <<"l", "e", "=", "\"">> \o NumToStr(bound) \o <<"\"", "}">>

FreshHistogram == [counts |-> <<>>, totalSum |-> <<>>, totalCount |-> <<>>]

\* C34: after reset() a Counter, Gauge or Histogram cannot be told from a
\* freshly constructed metric with the same name, help, label names and
\* bucket bounds: the descriptor is as before, the maps are those of a new
\* instance, and every operation gives on it the result, the error and the
\* toPrometheus output it gives on a new instance.
C34_ResetIsFresh ==
    [][ /\ ret'.op = "Counter.reset" =>
            /\ cLabels' = cLabels
            /\ cValues' = <<>>
            /\ \A c \in SharedCounterCalls :
                Counter_inc(cLabels', cValues', c[1], c[2])
                    = Counter_inc(cLabels, <<>>, c[1], c[2])
            /\ \A l \in LabelLists :
                Counter_getValue(cLabels', cValues', Arr(l))
                    = Counter_getValue(cLabels, <<>>, Arr(l))
            /\ Counter_toPrometheus(cName, cHelp, cLabels', cValues')
                   = Counter_toPrometheus(cName, cHelp, cLabels, <<>>)
        /\ ret'.op = "Gauge.reset" =>
            /\ gLabels' = gLabels
            /\ gValues' = <<>>
            /\ \A c \in SharedGaugeSetCalls :
                Gauge_set(gLabels', gValues', c[1], c[2]) = Gauge_set(gLabels, <<>>, c[1], c[2])
            /\ \A c \in SharedGaugeDeltaCalls :
                /\ Gauge_inc(gLabels', gValues', c[1], c[2])
                       = Gauge_inc(gLabels, <<>>, c[1], c[2])
                /\ Gauge_dec(gLabels', gValues', c[1], c[2])
                       = Gauge_dec(gLabels, <<>>, c[1], c[2])
            /\ \A l \in GaugeLists :
                Gauge_get(gLabels', gValues', Arr(l)) = Gauge_get(gLabels, <<>>, Arr(l))
            /\ Gauge_toPrometheus(gName, gHelp, gLabels', gValues')
                   = Gauge_toPrometheus(gName, gHelp, gLabels, <<>>)
        /\ ret'.op = "Histogram.reset" =>
            /\ hLabels' = hLabels
            /\ hBuckets' = Histogram_constructor(hArg.given).buckets
            /\ HistState' = FreshHistogram
            /\ \A c \in SharedHistCalls :
                Histogram_observe(hLabels', hBuckets', HistState', c[1], c[2])
                    = Histogram_observe(hLabels, hBuckets, FreshHistogram, c[1], c[2])
            /\ \A l \in HistLists :
                Histogram_get(hLabels', HistState', Arr(l))
                    = Histogram_get(hLabels, FreshHistogram, Arr(l))
            /\ Histogram_toPrometheus(hName, hHelp, hLabels', hBuckets', HistState')
                   = Histogram_toPrometheus(hName, hHelp, hLabels, hBuckets, FreshHistogram)
      ]_vars

\* C34 witness: reset() has emptied a histogram that held an observed key,
\* next to a counter that still holds a key.
C34_Witness ==
    /\ ret.op = "Histogram.reset"
    /\ ret.num > 0
    /\ hCounts = <<>>
    /\ cValues # <<>>

\* C35: Counter.inc with amount 0 and a label list of the declared length
\* succeeds and creates the key's entry when it is absent, so toPrometheus
\* then renders a data line with value 0 for that key although getValue gives
\* 0 for it before and after the call.
C35_IncZeroCreatesEntry ==
    \A l \in CounterKeys :
        LET r == Counter_inc(cLabels, cValues, Arr(l), Num(0))
            key == Stringify(l)
            before == Counter_getValue(cLabels, cValues, Arr(l))
            after == Counter_getValue(cLabels, r.values, Arr(l))
        IN  /\ r.err = NoError
            /\ MapHas(r.values, key)
            /\ before.err = NoError /\ after.err = NoError
            /\ after.num = before.num
            /\ ~MapHas(cValues, key) =>
                LET lines == SplitLines(Counter_toPrometheus(cName, cHelp, cLabels, r.values))
                IN  /\ before.num = 0
                    /\ Len(lines) = 2 + Len(cValues) + 1
                    /\ lines[Len(lines)] = SeriesLine(cName, cLabels, l, 0)

\* C35 witness: toPrometheus has rendered a labelled counter whose only key
\* was made by an inc with amount 0.
C35_Witness ==
    /\ ret.op = "Counter.toPrometheus"
    /\ cLabels # <<>>
    /\ Len(cCalls) = 1
    /\ cCalls[1].amount = 0
    /\ Len(cValues) = 1
    /\ cValues[1].v = 0
    /\ SplitLines(ret.out)[3] = SeriesLine(cName, cLabels, cCalls[1].labels, 0)

\* the names under which an instance is registered
NamesOf(metric) == {name \in RegistryNames : Registry_getMetric(rMetrics, name) = metric}

\* the TYPE line of an instance: the text between the first two newlines of
\* its render
TypeLineOf(metric) ==
    LET text == Metric_toPrometheus(metric)
        first == CHOOSE i \in 1..Len(text) : text[i] = "\n" /\ \A j \in 1..(i - 1) : text[j] # "\n"
        second == CHOOSE i \in (first + 1)..Len(text) :
                        text[i] = "\n" /\ \A j \in (first + 1)..(i - 1) : text[j] # "\n"
    IN  SubSeq(text, first + 1, second - 1)

\* the positions at which a line stands in a render
PositionsOf(lines, line) == {i \in 1..Len(lines) : lines[i] = line}

\* C36: the registry compares registration names only: register succeeds
\* for every name not yet present, also when the instance is registered
\* under another name or when another registered metric carries the same
\* metric name, and metrics() holds the block of a metric once per
\* registration.
C36_UniqueByNameOnly ==
    /\ \A name \in RegistryNames, metric \in Metrics :
        ~MapHas(rMetrics, name) =>
            LET r == Registry_register(rMetrics, name, metric)
            IN  /\ r.err = NoError
                /\ Len(r.metrics) = Len(rMetrics) + 1
                /\ Registry_getMetric(r.metrics, name) = metric
                /\ \A other \in RegistryNames \ {name} :
                    Registry_getMetric(r.metrics, other) = Registry_getMetric(rMetrics, other)
    /\ ret.op = "Registry.register" /\ ret.err # NoError => ret.err = AlreadyRegistered
    /\ ret.op = "Registry.metrics" =>
        LET lines == SplitLines(ret.out)
        IN  \A metric \in Metrics :
                LET line == TypeLineOf(metric)
                IN  Cardinality(PositionsOf(lines, line)) = Cardinality(NamesOf(metric))

\* C36 witness: metrics() has rendered a registry that holds the counter
\* under two names and the gauge, which carries the counter's metric name,
\* under a third.
C36_Witness ==
    /\ ret.op = "Registry.metrics"
    /\ gName = cName
    /\ Cardinality(NamesOf("counter")) = 2
    /\ Cardinality(NamesOf("gauge")) = 1
    /\ Cardinality(PositionsOf(SplitLines(ret.out), TypeLineOf("counter"))) = 2
    /\ cValues # <<>>

\* what a histogram holds for one key: its bucket counts, totalSum, totalCount
EntryOf(h, key) ==
    [counts |-> IF MapHas(h.counts, key) THEN h.counts[MapIndex(h.counts, key, 1)].v ELSE <<>>,
     totalSum |-> MapGetOr0(h.totalSum, key),
     totalCount |-> MapGetOr0(h.totalCount, key)]

\* the values observed for label list l, in the order of the calls
ValuesFor(calls, l) ==
    LET own == SelectSeq(calls, LAMBDA c : c.labels = l)
    IN  [i \in 1..Len(own) |-> own[i].value]

\* a sequence back to front
Reversed(seq) == [i \in 1..Len(seq) |-> seq[Len(seq) + 1 - i]]

RECURSIVE ObserveAll(_, _, _)
\* observe(l, v) for the values v of a sequence, one after the other, from h
ObserveAll(values, l, h) ==
    IF values = <<>> THEN h
    ELSE ObserveAll(Tail(values), l,
                    Histogram_observe(hLabels, hBuckets, h, Arr(l), Num(Head(values))).h)

\* C37: observe is order-independent: whatever the order in which the
\* successful observations of a key were made, its bucket counts, totalSum
\* and totalCount are those the same observations give in ascending order of
\* the values and in the opposite order of the calls.
C37_ObserveOrderIndependent ==
    \A l \in HistKeys :
        LET values == ValuesFor(hCalls, l)
            key == Stringify(l)
            held == EntryOf(HistState, key)
        IN  /\ held = EntryOf(ObserveAll(SortAscending(values), l, FreshHistogram), key)
            /\ held = EntryOf(ObserveAll(Reversed(values), l, FreshHistogram), key)

\* C37 witness: three different values were observed on one key in an order
\* that is neither ascending nor descending.
C37_Witness ==
    /\ ret.op = "Histogram.observe"
    /\ ret.err = NoError
    /\ Len(hCalls) = 3
    /\ hCalls[2].labels = hCalls[1].labels
    /\ hCalls[3].labels = hCalls[1].labels
    /\ hCalls[1].value > hCalls[2].value
    /\ hCalls[3].value > hCalls[1].value
    /\ Len(hBuckets) = 2

\* ------------------------- Counter, the label-list-first implementation
\* The class takes inc(labels = [], amount = 1) and checks nothing about the
\* amount but its sign, so its map holds JS numbers: cValues maps a key to a
\* JS number here, and cCalls logs the amounts as the JS numbers passed.
CannotDecreaseBang == [cls |-> "Error", msg |-> "Counter cannot be decreased!", expected |-> -1, actual |-> -1]
LabelCountMismatchBang == [cls |-> "Error", msg |-> "Label count mismatch!", expected |-> -1, actual |-> -1]

\* a + b for JS numbers
JsAdd(a, b) ==
    IF a.t = "NaN" \/ b.t = "NaN" THEN NaN
    ELSE IF a.t = "Infinity" /\ b.t = "Infinity" THEN (IF a.n = b.n THEN a ELSE NaN)
    ELSE IF a.t = "Infinity" THEN a
    ELSE IF b.t = "Infinity" THEN b
    ELSE Num(a.n + b.n)

\* a < b for JS numbers
JsLess(a, b) ==
    IF a.t = "NaN" \/ b.t = "NaN" THEN FALSE
    ELSE IF a.t = "Infinity" THEN a.n < 0 /\ b # a
    ELSE IF b.t = "Infinity" THEN b.n > 0
    ELSE a.n < b.n

\* this.values.get(key) || 0: undefined, 0 and NaN give 0
GetOrZero(values, key) ==
    IF ~MapHas(values, key) THEN Num(0)
    ELSE LET v == values[MapIndex(values, key, 1)].v
         IN  IF v.t = "NaN" \/ v = Num(0) THEN Num(0) ELSE v

\* inc(labels = [], amount = 1): the values map after the call and the error thrown
LabelFirstCounter_inc(declared, values, arg1, arg2) ==
    LET labels == Coalesce(arg1, Arr(<<>>)).a
        amount == Coalesce(arg2, Num(1))
        key == Stringify(labels)
    IN  IF LessThanZero(amount)
        THEN [values |-> values, err |-> CannotDecreaseBang]
        ELSE IF LabelCountDiffers(labels, declared)
        THEN [values |-> values, err |-> LabelCountMismatchBang]
        ELSE [values |-> MapSet(values, key, JsAdd(GetOrZero(values, key), amount)),
              err |-> NoError]

\* getValue(labels = []): the error thrown and the JS number returned
LabelFirstCounter_getValue(declared, values, arg) ==
    LET labels == Coalesce(arg, Arr(<<>>)).a
    IN  IF LabelCountDiffers(labels, declared)
        THEN [err |-> LabelCountMismatchBang, val |-> Num(0)]
        ELSE [err |-> NoError, val |-> GetOrZero(values, Stringify(labels))]

\* reset(): this.values.clear()
LabelFirstCounter_reset(values) == <<>>

\* what inc is called with: the label list or nothing, the amount or nothing
LabelFirstLabelArgs == {Undef} \cup {Arr(l) : l \in {<<>>, <<<<"a">>>>, <<<<"b">>>>}}
LabelFirstAmounts == {Undef, Num(-1), Num(0), Num(1), Num(2), NaN, PosInf, NegInf}

LabelFirstCounterInc ==
    \E arg1 \in LabelFirstLabelArgs, arg2 \in LabelFirstAmounts :
        LET r == LabelFirstCounter_inc(cLabels, cValues, arg1, arg2)
        IN  /\ r.err = NoError => Len(cCalls) < MaxOps
            /\ cValues' = r.values
            /\ cCalls' = IF r.err = NoError
                         THEN Append(cCalls, [labels |-> Coalesce(arg1, Arr(<<>>)).a,
                                              amount |-> Coalesce(arg2, Num(1))])
                         ELSE cCalls
            /\ ret' = [Ret("LabelFirstCounter.inc", r.err, 0, <<>>) EXCEPT !.val = arg2]
            /\ UNCHANGED <<cLabels, gaugeVars, histVars, regVars, encVars, handVars>>

LabelFirstCounterReset ==
    /\ cValues' = LabelFirstCounter_reset(cValues)
    /\ cCalls' = <<>>
    /\ ret' = Ret("LabelFirstCounter.reset", NoError, Len(cValues), <<>>)
    /\ UNCHANGED <<cLabels, gaugeVars, histVars, regVars, encVars, handVars>>

LabelFirstCounterGetValue ==
    \E arg \in LabelFirstLabelArgs :
        LET r == LabelFirstCounter_getValue(cLabels, cValues, arg)
        IN  /\ ret' = [Ret("LabelFirstCounter.getValue", r.err, 0, <<>>) EXCEPT !.val = r.val]
            /\ UNCHANGED <<counterVars, gaugeVars, histVars, regVars, encVars, handVars>>

InitLabelFirstCounter ==
    /\ \E labels \in {<<>>, <<<<"m">>>>} : NewCounter(labels)
    /\ NewGauge(<<>>)
    /\ NewHistogram(<<1>>, <<>>)
    /\ ret = InitRet
    /\ NewRegistry
    /\ NoEncoding
    /\ NoHandlers

NextLabelFirstCounter ==
    \/ LabelFirstCounterInc
    \/ LabelFirstCounterReset
    \/ LabelFirstCounterGetValue

SpecLabelFirstCounter == InitLabelFirstCounter /\ [][NextLabelFirstCounter]_vars

\* the label-list arguments of the declared length
LabelFirstKeys == {a \in LabelFirstLabelArgs : Len(Coalesce(a, Arr(<<>>)).a) = Len(cLabels)}

\* C38: in the label-list-first Counter, getValue(k) never decreases between
\* resets under inc calls with arbitrary numeric amounts, and an inc with a
\* negative amount throws 'Counter cannot be decreased!' and changes no
\* stored value.
C38_LabelFirstNeverDecreases ==
    [][/\ ret'.op # "LabelFirstCounter.reset" =>
            \A a \in LabelFirstKeys :
                ~JsLess(LabelFirstCounter_getValue(cLabels, cValues', a).val,
                        LabelFirstCounter_getValue(cLabels, cValues, a).val)
       /\ ret'.op = "LabelFirstCounter.inc" /\ LessThanZero(ret'.val) =>
            ret'.err = CannotDecreaseBang /\ cValues' = cValues]_vars

\* C38, the part that holds: an inc with a negative amount, -Infinity
\* included, throws 'Counter cannot be decreased!' whatever the label list
\* and changes no stored value, and an inc with a finite or infinite amount
\* never lowers what getValue returns for any key.
C38_NegativeIncRejected ==
    [][ret'.op = "LabelFirstCounter.inc" =>
        /\ LessThanZero(ret'.val) => ret'.err = CannotDecreaseBang /\ cValues' = cValues
        /\ ret'.val # NaN =>
            \A a \in LabelFirstKeys :
                ~JsLess(LabelFirstCounter_getValue(cLabels, cValues', a).val,
                        LabelFirstCounter_getValue(cLabels, cValues, a).val)]_vars

\* C38: inc with NaN has succeeded on a key whose value was positive, and
\* getValue now returns 0 for it.
C38_Witness ==
    /\ ret.op = "LabelFirstCounter.inc"
    /\ ret.err = NoError
    /\ ret.val = NaN
    /\ Len(cCalls) = 2
    /\ cCalls[1].labels = cCalls[2].labels
    /\ cCalls[1].amount = Num(2)
    /\ LabelFirstCounter_getValue(cLabels, cValues, Arr(cCalls[1].labels)).val = Num(0)

====
